---- MODULE Spec2Model ----
(***************************************************************************)
(* A state-machine model of the evolution simulator: the Simulation        *)
(* orchestrator (reset, per-tick update, generation transition), the       *)
(* LineageTracker, the SpeciesManager, the Agent's energy bookkeeping and  *)
(* the SimulationPersistence save/load handlers.                           *)
(*                                                                         *)
(* Abstractions.  In the simulation's own state machine positions and      *)
(* velocities are not modelled: where the code reads a position (which     *)
(* zone contains the agent, which food is in reach, which obstacle is hit) *)
(* the model takes the answer as an input of the tick.  Real numbers are   *)
(* fixed point: energy and fitness in 1/EnergyScale, genome weights in     *)
(* 1/WeightScale, mutation rates in 1/RateScale.  Every Math.random() draw *)
(* is an input chosen with \E.                                             *)
(*                                                                         *)
(* The parts the simulation is built from are also run on their own, with  *)
(* the object at work in the variable unit: the agent's physics step       *)
(* (SpecPhysics), reproduction and the two mutate functions                *)
(* (SpecGenetics), the SpeciesManager (SpecSpecies), crossover (SpecCross), *)
(* the TimeController (SpecClock) and the LineageTracker over several      *)
(* generations (SpecLineage).  SpecBatch and SpecPolicy run the simulation *)
(* with rosters above the full-update limit.                               *)
(***************************************************************************)
EXTENDS Integers, Sequences, FiniteSets, TLC

(***************************************************************************)
(* Units                                                                   *)
(***************************************************************************)
EnergyScale == 64 * 100
WeightScale == 10 * 10
RateScale == 1000 * 1000

Max(a, b) == IF a >= b THEN a ELSE b
Min(a, b) == IF a <= b THEN a ELSE b
CeilDiv(a, b) == (a + b - 1) \div b

SeqRange(s) == {s[i] : i \in 1..Len(s)}

(***************************************************************************)
(* Configuration (cfg.ts) and the constants written into the code          *)
(***************************************************************************)
AgentMaxEnergy == 100 * EnergyScale
AgentMetabolismRate == EnergyScale \div 10
AgentReproductionEnergy == 70 * EnergyScale
AgentBatchSize == 10
FullUpdateLimit == 20
GenerationTicks == 1000
CollisionPenalty == 5 * EnergyScale
PoisonFloor == 1 * EnergyScale
DefaultMutationRate == RateScale \div 20
DistanceThreshold == 4 * WeightScale
ResetObstacleCount == 23
ResetZones == {"fertile", "harsh", "barren"}

\* Food constructor: the energy of a food item by type.
FoodTypes == {"basic", "super", "poison"}
FoodEnergy(type) ==
  CASE type = "basic" -> 20 * EnergyScale
    [] type = "super" -> 50 * EnergyScale
    [] type = "poison" -> (0 - 30) * EnergyScale

\* Zone.getMetabolismMultiplier, in tenths.
ZoneMetabolism(type) ==
  CASE type = "harsh" -> 15
    [] type = "fertile" -> 8
    [] OTHER -> 10
DefaultMetabolism == 10

\* Agent constructor: the genome length the network architecture asks for.
RECURSIVE ExpectedWeights(_)
ExpectedWeights(layerSizes) ==
  IF Len(layerSizes) < 2 THEN 0
  ELSE layerSizes[1] * layerSizes[2] + layerSizes[2]
       + ExpectedWeights(Tail(layerSizes))

(***************************************************************************)
(* Bounds of the model                                                     *)
(***************************************************************************)
MaxTicks == 2
MaxEvents == 1
MaxHits == 1
MaxEat == 2
MaxActors == 2
MaxOps == 2
MaxWalk == 12
BatchTicks == 8

(***************************************************************************)
(* Genome                                                                  *)
(***************************************************************************)
Genome(weights, mutationRate) ==
  [weights |-> weights, mutationRate |-> mutationRate]

ConstGenome(size, w) == Genome([i \in 1..size |-> w], DefaultMutationRate)

\* Genome.random draws every weight from [-1, 1); the model draws whole
\* genomes from the two corners of that cube.
RandomGenomes(size) ==
  {ConstGenome(size, 0 - WeightScale), ConstGenome(size, WeightScale - 1)}

\* geneticDistance, squared (the square root is monotone).
RECURSIVE SumSquaredDiff(_, _)
SumSquaredDiff(wa, wb) ==
  IF wa = << >> THEN 0
  ELSE (Head(wa) - Head(wb)) * (Head(wa) - Head(wb))
       + SumSquaredDiff(Tail(wa), Tail(wb))

\* A faulty variant of WithinThreshold: a representative at exactly the
\* threshold matches.
WithinThresholdBuggyInclusive(genomeA, genomeB) ==
  SumSquaredDiff(genomeA.weights, genomeB.weights)
    <= DistanceThreshold * DistanceThreshold

WithinThreshold(genomeA, genomeB) ==
  SumSquaredDiff(genomeA.weights, genomeB.weights)
    < DistanceThreshold * DistanceThreshold

(***************************************************************************)
(* LineageTracker                                                          *)
(***************************************************************************)
NoTick == 0 - 1

NewLineageTracker ==
  [records |-> << >>, nextAgentId |-> 1, currentGeneration |-> 1,
   currentTick |-> 0]

HasRecord(lt, id) == id \in DOMAIN lt.records

\* registerBirth: the new tracker; the id handed out is lt.nextAgentId.
RegisterBirth(lt, parentIds, speciesId) ==
  LET id == lt.nextAgentId
      rec == [id |-> id, parentIds |-> parentIds,
              generation |-> lt.currentGeneration, speciesId |-> speciesId,
              birthTick |-> lt.currentTick, deathTick |-> NoTick,
              maxFitness |-> 0]
  IN [lt EXCEPT !.records = (id :> rec) @@ lt.records,
                !.nextAgentId = id + 1]

RegisterDeath(lt, agentId, finalFitness) ==
  IF HasRecord(lt, agentId)
  THEN [lt EXCEPT !.records[agentId].deathTick = lt.currentTick,
                  !.records[agentId].maxFitness =
                     Max(lt.records[agentId].maxFitness, finalFitness)]
  ELSE lt

LineageUpdateFitness(lt, agentId, fitness) ==
  IF HasRecord(lt, agentId)
  THEN [lt EXCEPT !.records[agentId].maxFitness =
                     Max(lt.records[agentId].maxFitness, fitness)]
  ELSE lt

LineageAdvanceGeneration(lt) ==
  [lt EXCEPT !.currentGeneration = lt.currentGeneration + 1]

UpdateTick(lt, tick) == [lt EXCEPT !.currentTick = tick]

ClearAllRecords(lt) == [lt EXCEPT !.records = << >>]

AddRecordDirect(lt, record) ==
  [lt EXCEPT !.records = (record.id :> record) @@ lt.records]

\* getAncestors: the breadth-first walk, one queue.shift() per step.  It
\* returns after at most `fuel` steps; done tells whether the queue emptied.
RECURSIVE AncestorWalk(_, _, _, _)
AncestorWalk(lt, queue, ancestors, fuel) ==
  IF queue = << >> THEN [done |-> TRUE, ancestors |-> ancestors]
  ELSE IF fuel = 0 THEN [done |-> FALSE, ancestors |-> ancestors]
  ELSE LET parentId == Head(queue)
       IN IF HasRecord(lt, parentId)
          THEN AncestorWalk(lt, Tail(queue) \o lt.records[parentId].parentIds,
                            Append(ancestors, lt.records[parentId]), fuel - 1)
          ELSE AncestorWalk(lt, Tail(queue), ancestors, fuel - 1)

GetAncestors(lt, agentId, fuel) ==
  IF ~HasRecord(lt, agentId) THEN [done |-> TRUE, ancestors |-> << >>]
  ELSE AncestorWalk(lt, lt.records[agentId].parentIds, << >>, fuel)

(***************************************************************************)
(* SpeciesManager                                                          *)
(***************************************************************************)
NewSpeciesManager ==
  [species |-> << >>, nextSpeciesId |-> 1, currentGeneration |-> 1]

\* Species constructor: the first member is pushed unconditionally.
NewSpecies(id, representative, creationGeneration, firstMemberId) ==
  [id |-> id, members |-> <<firstMemberId>>,
   representative |-> representative,
   creationGeneration |-> creationGeneration,
   lastImprovedGeneration |-> creationGeneration, bestFitness |-> 0]

AddMember(sp, agentId) ==
  IF agentId \in SeqRange(sp.members) THEN sp
  ELSE [sp EXCEPT !.members = Append(sp.members, agentId)]

SpeciesUpdateFitness(sp, fitness) ==
  IF fitness > sp.bestFitness THEN [sp EXCEPT !.bestFitness = fitness] ELSE sp

\* The position of the first species, in creation order, whose
\* representative is closer than the threshold; 0 when there is none.
FirstMatch(sm, genome) ==
  LET hits == {i \in 1..Len(sm.species) :
                 WithinThreshold(genome, sm.species[i].representative)}
  IN IF hits = {} THEN 0 ELSE CHOOSE i \in hits : \A j \in hits : i <= j

\* assignSpecies: the new manager and the position of the species returned.
AssignSpecies(sm, genome, agentId) ==
  LET m == FirstMatch(sm, genome)
  IN IF m = 0
     THEN [sm |-> [sm EXCEPT
                     !.species = Append(sm.species,
                        NewSpecies(sm.nextSpeciesId, genome,
                                   sm.currentGeneration, agentId)),
                     !.nextSpeciesId = sm.nextSpeciesId + 1],
           ref |-> Len(sm.species) + 1]
     ELSE [sm |-> [sm EXCEPT !.species[m] = AddMember(sm.species[m], agentId)],
           ref |-> m]

SpeciesAdvanceGeneration(sm) ==
  [sm EXCEPT !.currentGeneration = sm.currentGeneration + 1,
             !.species = [i \in 1..Len(sm.species) |->
                            [sm.species[i] EXCEPT !.members = << >>]]]

ClearAllSpecies(sm) == [sm EXCEPT !.species = << >>]

CreateSpecies(sm, id, representative, creationGeneration) ==
  [sm EXCEPT !.species =
     Append(sm.species, NewSpecies(id, representative, creationGeneration, 0))]

\* getSpeciesById: the position of the first species with that id, or 0.
GetSpeciesById(sm, id) ==
  LET hits == {i \in 1..Len(sm.species) : sm.species[i].id = id}
  IN IF hits = {} THEN 0 ELSE CHOOSE i \in hits : \A j \in hits : i <= j

(***************************************************************************)
(* Genetic operators (mutation.ts)                                         *)
(***************************************************************************)
\* mutate(genome, rate, amount): delta[i] is the perturbation weight i
\* receives, 0 when the weight is not selected.  The copy keeps the rate.
Mutate(genome, delta) ==
  Genome([i \in 1..Len(genome.weights) |-> genome.weights[i] + delta[i]],
         genome.mutationRate)

\* The sorted crossover points of MULTI_POINT, applied in order: every
\* point overwrites the tail of the child from the parent that is current.
RECURSIVE ApplyPoints(_, _, _, _, _)
ApplyPoints(child, w1, w2, points, currentParent) ==
  IF points = << >> THEN child
  ELSE LET src == IF currentParent = 2 THEN w2 ELSE w1
           next == [i \in 1..Len(child) |->
                      IF i > Head(points) THEN src[i] ELSE child[i]]
       IN ApplyPoints(next, w1, w2, Tail(points),
                      IF currentParent = 2 THEN 1 ELSE 2)

\* A faulty variant of Crossover: SINGLE_POINT takes one weight too many
\* from parent1.
CrossoverBuggyOffByOne(parent1, parent2, crossoverType, draw) ==
  LET w1 == parent1.weights
      w2 == parent2.weights
      n == Len(w1)
  IN CASE crossoverType = "UNIFORM" ->
            Genome([i \in 1..n |-> IF i \in draw.mask THEN w1[i] ELSE w2[i]],
                   DefaultMutationRate)
       [] crossoverType = "SINGLE_POINT" ->
            Genome(SubSeq(w1, 1, draw.point + 1)
                     \o SubSeq(w2, draw.point + 2, n),
                   DefaultMutationRate)
       [] OTHER ->
            Genome(ApplyPoints(w1, w1, w2, draw.points, 2),
                   DefaultMutationRate)

\* crossover: draw.mask is the set of positions UNIFORM takes from parent1,
\* draw.point the 0-based SINGLE_POINT index, draw.points the sorted 0-based
\* MULTI_POINT indices.  The child is a new Genome(): default rate.
Crossover(parent1, parent2, crossoverType, draw) ==
  LET w1 == parent1.weights
      w2 == parent2.weights
      n == Len(w1)
  IN CASE crossoverType = "UNIFORM" ->
            Genome([i \in 1..n |-> IF i \in draw.mask THEN w1[i] ELSE w2[i]],
                   DefaultMutationRate)
       [] crossoverType = "SINGLE_POINT" ->
            Genome(SubSeq(w1, 1, draw.point) \o SubSeq(w2, draw.point + 1, n),
                   DefaultMutationRate)
       [] OTHER ->
            Genome(ApplyPoints(w1, w1, w2, draw.points, 2),
                   DefaultMutationRate)

(***************************************************************************)
(* Agent                                                                   *)
(***************************************************************************)
\* Agent constructor.  obj is the identity of the object (and of the neural
\* network it owns); sref is the position of its species in the manager's
\* list (0: null), sid that species' id.
NewAgent(obj, genome, id) ==
  [obj |-> obj, id |-> id, energy |-> AgentMaxEnergy \div 2, age |-> 0,
   fitness |-> 0, dead |-> FALSE, mm |-> DefaultMetabolism,
   genome |-> genome, sref |-> 0, sid |-> 0, parentIds |-> << >>]

\* checkFoodConsumption, for the food types in reach in list order.
RECURSIVE ConsumeFoods(_, _)
ConsumeFoods(energy, types) ==
  IF types = << >> THEN energy
  ELSE LET e1 == energy + FoodEnergy(Head(types))
           e2 == IF e1 < PoisonFloor /\ Head(types) = "poison"
                 THEN PoisonFloor ELSE e1
           e3 == IF e2 > AgentMaxEnergy THEN AgentMaxEnergy ELSE e2
       IN ConsumeFoods(e3, Tail(types))

\* A faulty variant of Metabolism: the death test is < 0, so an agent whose
\* energy reaches exactly 0 lives on.
MetabolismBuggyKeepsAlive(agent) ==
  [agent EXCEPT !.age = agent.age + 1,
                !.energy = agent.energy
                           - (AgentMetabolismRate * agent.mm) \div 10,
                !.dead = agent.energy
                           - (AgentMetabolismRate * agent.mm) \div 10 < 0]

\* Agent.update up to the early return: age, metabolism, death.
Metabolism(agent) ==
  LET e == agent.energy - (AgentMetabolismRate * agent.mm) \div 10
  IN [agent EXCEPT !.age = agent.age + 1, !.energy = e,
                   !.dead = IF e <= 0 THEN TRUE ELSE agent.dead]

\* Agent.update: eaten are the types of the food consumed, in list order,
\* hits the number of obstacles the agent overlaps.
AgentUpdate(agent, eaten, hits) ==
  LET a1 == Metabolism(agent)
  IN IF a1.energy <= 0 THEN a1
     ELSE LET e2 == ConsumeFoods(a1.energy, eaten)
              e3 == e2 - hits * CollisionPenalty
          IN [a1 EXCEPT !.energy = e3,
                        !.fitness = a1.age * EnergyScale + e3]

CanReproduce(agent) == agent.energy > AgentReproductionEnergy

CrossoverTypeFor(gen) ==
  IF gen < 5 THEN "UNIFORM"
  ELSE IF gen < 15 THEN "SINGLE_POINT" ELSE "MULTI_POINT"

\* Agent.reproduce: the genome of the child.  partner is an agent record or
\* NoAgent; the energies are halved by the caller (Reproduce below).
NoAgent == [obj |-> 0]

\* The genome reproduce holds before it calls mutate: the crossover of
\* the two parents with their rates averaged, or a copy of the parent's.
ChildBase(parent, partner, gen, draw) ==
  IF partner # NoAgent /\ CanReproduce(partner)
  THEN [Crossover(parent.genome, partner.genome,
                  CrossoverTypeFor(gen), draw)
          EXCEPT !.mutationRate =
            (parent.genome.mutationRate
             + partner.genome.mutationRate) \div 2]
  ELSE parent.genome

ChildGenome(parent, partner, gen, draw) ==
  Mutate(ChildBase(parent, partner, gen, draw), draw.delta)

(***************************************************************************)
(* Simulation: helpers                                                     *)
(***************************************************************************)
\* The state of a Simulation object (with its trackers) is one record:
\*   config, generation, tickCount, agents, foods, zones, obstacles,
\*   speciesManager, lineageTracker, deadAgents
\* and two fields for the heap: nextObj, the identity the next agent object
\* gets, and disposed, the identities of the agents whose dispose() ran.
NewSimulation(cfg) ==
  [config |-> cfg, generation |-> 1, tickCount |-> 0, agents |-> << >>,
   foods |-> << >>, zones |-> {}, obstacles |-> 0,
   speciesManager |-> NewSpeciesManager,
   lineageTracker |-> NewLineageTracker, deadAgents |-> << >>,
   nextObj |-> 1, disposed |-> {}]

GenomeSize(cfg) == ExpectedWeights(cfg.layerSizes)

Objs(agents) == {agents[i].obj : i \in 1..Len(agents)}

\* The elements of a set of integers in increasing order.
RECURSIVE SortedSeq(_)
SortedSeq(set) ==
  IF set = {} THEN << >>
  ELSE LET m == CHOOSE x \in set : \A y \in set : x <= y
       IN <<m>> \o SortedSeq(set \ {m})

\* A faulty variant of SpawnFood: the loop stops one item short.
SpawnFoodBuggyOneShort(foods, types) ==
  foods \o [i \in 1..(Len(types) - 1) |->
              [type |-> types[i], isConsumed |-> FALSE]]

\* spawnFood(count): types[i] is the type the i-th roll gives.
SpawnFood(foods, types) ==
  foods \o [i \in 1..Len(types) |-> [type |-> types[i], isConsumed |-> FALSE]]

\* reset() and the extinction branch of startNewGeneration(): one agent per
\* genome, born without parents and assigned a species.
RECURSIVE SeedAgents(_, _, _, _, _)
SeedAgents(agents, lt, sm, nextObj, genomes) ==
  IF genomes = << >>
  THEN [agents |-> agents, lt |-> lt, sm |-> sm, nextObj |-> nextObj]
  ELSE LET id == lt.nextAgentId
           lt1 == RegisterBirth(lt, << >>, 0)
           asg == AssignSpecies(sm, Head(genomes), id)
           agent == [NewAgent(nextObj, Head(genomes), id) EXCEPT
                       !.sref = asg.ref, !.sid = asg.sm.species[asg.ref].id]
       IN SeedAgents(Append(agents, agent), lt1, asg.sm, nextObj + 1,
                     Tail(genomes))

\* reset(): dispose the roster, new trackers, the environment, the agents,
\* the food.
ResetSim(S, genomes, foodTypes) ==
  LET seeded == SeedAgents(<< >>, NewLineageTracker, NewSpeciesManager,
                           S.nextObj, genomes)
  IN [S EXCEPT !.disposed = S.disposed \cup Objs(S.agents),
               !.agents = seeded.agents,
               !.foods = SpawnFood(<< >>, foodTypes),
               !.obstacles = ResetObstacleCount,
               !.zones = ResetZones,
               !.deadAgents = << >>,
               !.generation = 1,
               !.tickCount = 0,
               !.speciesManager = seeded.sm,
               !.lineageTracker = seeded.lt,
               !.nextObj = seeded.nextObj]

(***************************************************************************)
(* Simulation.update: the agents                                           *)
(***************************************************************************)
\* The input of one agent in one tick: the multiplier of the zone that
\* contains it (applyEnvironmentEffects), the positions in the food list of
\* the items in its reach, and the number of obstacles it overlaps.
DefaultInput == [mm |-> DefaultMetabolism, eats |-> {}, hits |-> 0]

\* A faulty variant of Window: the window of the tick after.
WindowBuggyNextTick(n, tick) ==
  IF n <= FullUpdateLimit THEN 1..n
  ELSE LET startIdx == ((tick + 1) * AgentBatchSize) % n
           endIdx == Min(startIdx + AgentBatchSize, n)
       IN (startIdx + 1)..endIdx

\* The roster positions (from 1) that receive the full update in a tick.
Window(n, tick) ==
  IF n <= FullUpdateLimit THEN 1..n
  ELSE LET startIdx == (tick * AgentBatchSize) % n
           endIdx == Min(startIdx + AgentBatchSize, n)
       IN (startIdx + 1)..endIdx

\* The agent loop of update(), from roster position i on.  log collects one
\* entry per agent: what the tick did to it.
RECURSIVE UpdateAgents(_, _, _, _, _, _)
UpdateAgents(i, agents, foods, inp, window, log) ==
  IF i > Len(agents) THEN [agents |-> agents, foods |-> foods, log |-> log]
  ELSE IF i \notin window
  THEN UpdateAgents(i + 1, agents, foods, inp, window,
         Append(log, [obj |-> agents[i].obj, full |-> FALSE,
                      before |-> agents[i], after |-> agents[i],
                      ate |-> 0, hits |-> 0]))
  ELSE LET a0 == [agents[i] EXCEPT !.mm = inp[i].mm]
           starved == Metabolism(a0).energy <= 0
           reach == IF starved THEN {}
                    ELSE {k \in inp[i].eats :
                            k <= Len(foods) /\ ~foods[k].isConsumed}
           order == SortedSeq(reach)
           eaten == [k \in 1..Len(order) |-> foods[order[k]].type]
           hits == IF starved THEN 0 ELSE inp[i].hits
           a1 == AgentUpdate(a0, eaten, hits)
           foods1 == [k \in 1..Len(foods) |->
                        IF k \in reach
                        THEN [foods[k] EXCEPT !.isConsumed = TRUE]
                        ELSE foods[k]]
       IN UpdateAgents(i + 1, [agents EXCEPT ![i] = a1], foods1, inp, window,
            Append(log, [obj |-> a1.obj, full |-> TRUE,
                         before |-> agents[i], after |-> a1,
                         ate |-> Len(order), hits |-> hits]))

Unconsumed(foods) == SelectSeq(foods, LAMBDA f : ~f.isConsumed)
ConsumedCount(foods) == Len(SelectSeq(foods, LAMBDA f : f.isConsumed))

\* "Respawn consumed food": spawn as many as were consumed, then drop the
\* consumed ones.
RespawnFood(foods, types) ==
  IF ConsumedCount(foods) > 0
  THEN Unconsumed(SpawnFood(foods, types))
  ELSE foods

\* "Update fitness tracking for all agents".
RECURSIVE TrackFitness(_, _, _)
TrackFitness(agents, lt, sm) ==
  IF agents = << >> THEN [lt |-> lt, sm |-> sm]
  ELSE LET a == Head(agents)
           lt1 == LineageUpdateFitness(lt, a.id, a.fitness)
           sm1 == IF a.sref > 0
                  THEN [sm EXCEPT !.species[a.sref] =
                          SpeciesUpdateFitness(sm.species[a.sref], a.fitness)]
                  ELSE sm
       IN TrackFitness(Tail(agents), lt1, sm1)

RECURSIVE RegisterDeaths(_, _)
RegisterDeaths(dead, lt) ==
  IF dead = << >> THEN lt
  ELSE RegisterDeaths(Tail(dead),
                      RegisterDeath(lt, Head(dead).id, Head(dead).fitness))

(***************************************************************************)
(* Simulation.startNewGeneration                                           *)
(***************************************************************************)
\* [...agents].sort((a, b) => b.fitness - a.fitness): stable, descending.
RECURSIVE InsertByFitness(_, _)
InsertByFitness(sorted, a) ==
  IF sorted = << >> THEN <<a>>
  ELSE IF Head(sorted).fitness >= a.fitness
       THEN <<Head(sorted)>> \o InsertByFitness(Tail(sorted), a)
       ELSE <<a>> \o sorted

RECURSIVE SortByFitnessFrom(_, _)
SortByFitnessFrom(acc, rest) ==
  IF rest = << >> THEN acc
  ELSE SortByFitnessFrom(InsertByFitness(acc, Head(rest)), Tail(rest))

SortByFitness(agents) == SortByFitnessFrom(<< >>, agents)

\* A faulty variant of Survivors: Math.floor in place of Math.ceil.
SurvivorsBuggyFloor(agents) ==
  SubSeq(SortByFitness(agents), 1, Len(agents) \div 4)

\* "Keep only the top performers".
Survivors(agents) ==
  SubSeq(SortByFitness(agents), 1, CeilDiv(Len(agents), 4))

Half(energy) == energy \div 2

\* The offspring loop.  Each draw gives the position of the parent among
\* the survivors, the position of the partner (0: none), and the random
\* numbers of crossover and mutate.  reproduce() halves the parent's energy
\* and, when the partner can reproduce, the partner's.  births tells of
\* each offspring, in order, which branch of reproduce() made its genome
\* and what the call did to the energies.
RECURSIVE Breed(_, _, _, _, _, _, _)
Breed(survivors, children, lt, sm, nextObj, gen, draws) ==
  IF draws = << >>
  THEN [agents |-> survivors \o children, lt |-> lt, sm |-> sm,
        nextObj |-> nextObj, births |-> << >>]
  ELSE LET d == Head(draws)
           parent == survivors[d.parent]
           partner == IF d.partner = 0 THEN NoAgent ELSE survivors[d.partner]
           sexual == partner # NoAgent /\ CanReproduce(partner)
           s1 == [survivors EXCEPT ![d.parent].energy = Half(parent.energy)]
           s2 == IF sexual
                 THEN [s1 EXCEPT ![d.partner].energy = Half(partner.energy)]
                 ELSE s1
           genome == ChildGenome(parent, partner, gen, d)
           parentIds == IF partner # NoAgent
                        THEN <<parent.id, partner.id>> ELSE <<parent.id>>
           id == lt.nextAgentId
           lt1 == RegisterBirth(lt, parentIds, 0)
           asg == AssignSpecies(sm, genome, id)
           child == [NewAgent(nextObj, genome, id) EXCEPT
                       !.parentIds = parentIds, !.sref = asg.ref,
                       !.sid = asg.sm.species[asg.ref].id]
           birth == [id |-> id, parentIds |-> parentIds, crossed |-> sexual,
                     base |-> ChildBase(parent, partner, gen, d),
                     genomes |-> IF partner # NoAgent
                                 THEN <<parent.genome, partner.genome>>
                                 ELSE <<parent.genome>>,
                     before |-> IF partner # NoAgent
                                THEN <<parent.energy, partner.energy>>
                                ELSE <<parent.energy>>,
                     after |-> IF partner # NoAgent
                               THEN <<s2[d.parent].energy,
                                      s2[d.partner].energy>>
                               ELSE <<s2[d.parent].energy>>,
                     draw |-> d]
           rest == Breed(s2, Append(children, child), lt1, asg.sm,
                         nextObj + 1, gen, Tail(draws))
       IN [rest EXCEPT !.births = <<birth>> \o @]

\* The number of offspring the while loop produces.
OffspringCount(S) ==
  Max(0, S.config.initialAgentCount - Len(Survivors(S.agents)))

\* startNewGeneration(): gd.genomes are the genomes of the reseeded agents
\* (extinction), gd.offspring the draws of the offspring loop, gd.foodTypes
\* the types of the respawned food.
StartNewGeneration(S, gd) ==
  LET gen == S.generation + 1
      sm1 == SpeciesAdvanceGeneration(S.speciesManager)
      lt1 == LineageAdvanceGeneration(S.lineageTracker)
      survivors == Survivors(S.agents)
      bred == IF S.agents = << >>
              THEN SeedAgents(<< >>, lt1, sm1, S.nextObj, gd.genomes)
              ELSE Breed(survivors, << >>, lt1, sm1, S.nextObj, gen,
                         gd.offspring)
      pruned == IF S.agents = << >> THEN {}
                ELSE Objs(S.agents) \ Objs(survivors)
  IN [S EXCEPT !.generation = gen,
               !.tickCount = 0,
               !.speciesManager = bred.sm,
               !.lineageTracker = bred.lt,
               !.agents = bred.agents,
               !.nextObj = bred.nextObj,
               !.disposed = S.disposed \cup pruned,
               !.foods = SpawnFood(<< >>, gd.foodTypes)]

\* What the offspring loop of startNewGeneration() from S did, birth by
\* birth; nothing when S has no agents (the roster is reseeded).
Births(S, gd) ==
  IF S.agents = << >> THEN << >>
  ELSE Breed(Survivors(S.agents), << >>,
             LineageAdvanceGeneration(S.lineageTracker),
             SpeciesAdvanceGeneration(S.speciesManager), S.nextObj,
             S.generation + 1, gd.offspring).births

\* A faulty variant of GenerationEnds: the horizon has to be passed, not
\* reached.
GenerationEndsBuggyLate(S) ==
  S.agents = << >> \/ S.tickCount > GenerationTicks

GenerationEnds(S) == S.agents = << >> \/ S.tickCount >= GenerationTicks

(***************************************************************************)
(* Simulation.update                                                       *)
(***************************************************************************)
\* The agent loop of update(): inp are the agents' inputs.
UpdateAgentsAndFood(S, inp) ==
  UpdateAgents(1, S.agents, S.foods, inp,
               Window(Len(S.agents), S.tickCount + 1), << >>)

\* "Process dead agents": the roster without the dead.
ProcessDead(agents) == SelectSeq(agents, LAMBDA a : ~a.dead)

\* update() after the agent loop, up to checkGenerationEnd(): upd is what
\* the agent loop left, respawn the types of the food spawned for the
\* consumed items.
UpdateRest(S, upd, respawn) ==
  LET tick == S.tickCount + 1
      lt1 == UpdateTick(S.lineageTracker, tick)
      foods1 == RespawnFood(upd.foods, respawn)
      tracked == TrackFitness(upd.agents, lt1, S.speciesManager)
      dead == SelectSeq(upd.agents, LAMBDA a : a.dead)
  IN [S EXCEPT !.tickCount = tick,
               !.agents = ProcessDead(upd.agents),
               !.foods = foods1,
               !.deadAgents = dead,
               !.lineageTracker = RegisterDeaths(dead, tracked.lt),
               !.speciesManager = tracked.sm]

CheckGenerationEnd(S, gd) ==
  IF GenerationEnds(S) THEN StartNewGeneration(S, gd) ELSE S

\* update(), whole.
Update(S, inp, respawn, gd) ==
  CheckGenerationEnd(UpdateRest(S, UpdateAgentsAndFood(S, inp), respawn), gd)

(***************************************************************************)
(* SimulationPersistence                                                   *)
(***************************************************************************)
NoSnapshot == [generation |-> 0 - 1]

\* The species list as saveToLocalStorage and exportToFile write it.
SpeciesData(sm) ==
  [i \in 1..Len(sm.species) |->
     LET sp == sm.species[i]
     IN [id |-> sp.id, creationGeneration |-> sp.creationGeneration,
         lastImprovedGeneration |-> sp.lastImprovedGeneration,
         bestFitness |-> sp.bestFitness, members |-> sp.members,
         representative |-> sp.representative]]

\* The state object of saveToLocalStorage (withFood FALSE) and exportToFile
\* (withFood TRUE), as JSON.stringify writes it.  missing names the lists a
\* partial file lacks.
Snapshot(S, withFood) ==
  [generation |-> S.generation,
   tickCount |-> S.tickCount,
   agents |-> [i \in 1..Len(S.agents) |->
      [id |-> S.agents[i].id, fitness |-> S.agents[i].fitness,
       energy |-> S.agents[i].energy, age |-> S.agents[i].age,
       speciesId |-> IF S.agents[i].sref = 0 THEN 0 ELSE S.agents[i].sid,
       parentIds |-> S.agents[i].parentIds, mm |-> S.agents[i].mm,
       genome |-> S.agents[i].genome]],
   species |-> SpeciesData(S.speciesManager),
   zones |-> S.zones,
   obstacles |-> S.obstacles,
   hasFood |-> withFood,
   food |-> IF withFood
            THEN [i \in 1..Len(S.foods) |-> S.foods[i].type] ELSE << >>,
   lineage |-> LET ids == SortedSeq(DOMAIN S.lineageTracker.records)
               IN [k \in 1..Len(ids) |-> S.lineageTracker.records[ids[k]]],
   missing |-> {}]

\* restoreSpecies: clear, then one createSpecies per saved species.
RECURSIVE RestoreSpeciesFrom(_, _)
RestoreSpeciesFrom(sm, speciesData) ==
  IF speciesData = << >> THEN sm
  ELSE LET info == Head(speciesData)
           sm1 == CreateSpecies(sm, info.id, info.representative,
                                info.creationGeneration)
           k == Len(sm1.species)
           sm2 == [sm1 EXCEPT
                     !.species[k].lastImprovedGeneration =
                        info.lastImprovedGeneration,
                     !.species[k].bestFitness = info.bestFitness]
       IN RestoreSpeciesFrom(sm2, Tail(speciesData))

RestoreSpecies(sm, speciesData) ==
  RestoreSpeciesFrom(ClearAllSpecies(sm), speciesData)

\* restoreAgents, after clearAgents(): one new Agent per saved agent.
RECURSIVE RestoreAgentsFrom(_, _, _, _)
RestoreAgentsFrom(newAgents, sm, nextObj, agentData) ==
  IF agentData = << >>
  THEN [agents |-> newAgents, sm |-> sm, nextObj |-> nextObj]
  ELSE LET info == Head(agentData)
           ref == IF info.speciesId # 0
                  THEN GetSpeciesById(sm, info.speciesId) ELSE 0
           sm1 == IF ref # 0
                  THEN [sm EXCEPT !.species[ref] =
                          AddMember(sm.species[ref], info.id)]
                  ELSE sm
           agent == [NewAgent(nextObj, info.genome, info.id) EXCEPT
                       !.energy = info.energy, !.fitness = info.fitness,
                       !.age = info.age, !.parentIds = info.parentIds,
                       !.mm = IF info.mm = 0 THEN DefaultMetabolism
                              ELSE info.mm,
                       !.sref = ref,
                       !.sid = IF ref = 0 THEN 0 ELSE info.speciesId]
       IN RestoreAgentsFrom(Append(newAgents, agent), sm1, nextObj + 1,
                            Tail(agentData))

\* restoreLineage: clear, then addRecordDirect for every saved record.
RECURSIVE AddRecords(_, _)
AddRecords(lt, lineageData) ==
  IF lineageData = << >> THEN lt
  ELSE AddRecords(AddRecordDirect(lt, Head(lineageData)), Tail(lineageData))

RestoreLineage(lt, lineageData) ==
  AddRecords(ClearAllRecords(lt), lineageData)

\* The agents keep their references to species objects the manager dropped.
Orphaned(agents) ==
  [i \in 1..Len(agents) |->
     IF agents[i].sref > 0 THEN [agents[i] EXCEPT !.sref = 0 - 1]
     ELSE agents[i]]

\* The body of loadFromLocalStorage and of importFromFile's onload, from
\* the parsed state on: the simulation it leaves and whether it returned
\* normally (ok) or threw into the catch.  foodTypes are the types
\* spawnFood draws when the state holds no food list.
LoadState(S, state, foodTypes) ==
  LET S1 == [S EXCEPT !.generation = state.generation,
                      !.tickCount = state.tickCount]
  IN IF "json" \in state.missing
     THEN [sim |-> S, ok |-> FALSE]
     ELSE IF "species" \in state.missing
     THEN [sim |-> [S1 EXCEPT
                      !.speciesManager = ClearAllSpecies(S.speciesManager),
                      !.agents = Orphaned(S.agents)],
           ok |-> FALSE]
     ELSE
     LET sm2 == RestoreSpecies(S.speciesManager, state.species)
         S2 == [S1 EXCEPT !.speciesManager = sm2,
                          !.disposed = S.disposed \cup Objs(S.agents),
                          !.agents = << >>]
     IN IF "agents" \in state.missing
        THEN [sim |-> S2, ok |-> FALSE]
        ELSE
        LET ra == RestoreAgentsFrom(<< >>, sm2, S.nextObj, state.agents)
        IN [sim |-> [S2 EXCEPT
                       !.agents = ra.agents,
                       !.speciesManager = ra.sm,
                       !.nextObj = ra.nextObj,
                       !.zones = state.zones,
                       !.obstacles = state.obstacles,
                       !.foods = IF state.hasFood
                                 THEN SpawnFood(<< >>, state.food)
                                 ELSE SpawnFood(S.foods, foodTypes),
                       !.lineageTracker =
                          RestoreLineage(S.lineageTracker, state.lineage)],
            ok |-> TRUE]

\* A file the user picks: the exported one, that file with a list cut, or
\* text JSON.parse rejects.
PartialFiles(state) ==
  {[state EXCEPT !.missing = {f}] : f \in {"species", "agents", "json"}}

(***************************************************************************)
(* Inputs                                                                  *)
(***************************************************************************)
\* The configurations the model runs: cfg.ts scaled down (the repository's
\* is 50 agents, 100 food items, layers 12-16-12-3).
Configs ==
  {[initialAgentCount |-> 5, initialFoodCount |-> 2, layerSizes |-> <<4, 1>>]}

BatchConfigs ==
  {[initialAgentCount |-> n, initialFoodCount |-> 1, layerSizes |-> <<4, 1>>] :
     n \in {21, 22}}

\* Food types of one spawnFood(count) call: every roll basic, or a poison
\* item followed by super ones.
SpawnDraws(count) ==
  {[i \in 1..count |-> "basic"],
   [i \in 1..count |-> IF i = 1 THEN "poison" ELSE "super"]}

\* Genomes of count random agents: all in one corner, or alternating.
GenomeDraws(count, size) ==
  {[i \in 1..count |-> g] : g \in RandomGenomes(size)}
    \cup {[i \in 1..count |->
             IF i % 2 = 1 THEN ConstGenome(size, 0 - WeightScale)
             ELSE ConstGenome(size, WeightScale - 1)]}

\* The random numbers of one reproduce(): nothing mutates and UNIFORM takes
\* every weight from parent1, or the first weight is perturbed and UNIFORM
\* takes only the first weight from parent1.
GeneDraws(size) ==
  {[mask |-> 1..size, point |-> 0, points |-> <<0, 0>>,
    delta |-> [i \in 1..size |-> 0]],
   [mask |-> {1}, point |-> size \div 2, points |-> <<1, size - 1>>,
    delta |-> [i \in 1..size |-> IF i = 1 THEN 5 ELSE 0]]}

OffspringDraws(survivorCount, size) ==
  {[parent |-> pq[1], partner |-> pq[2], mask |-> g.mask, point |-> g.point,
    points |-> g.points, delta |-> g.delta] :
     pq \in {x \in (1..survivorCount) \X (0..survivorCount) :
               /\ x[1] # x[2]
               /\ survivorCount > 1 \/ x[2] = 0},
     g \in GeneDraws(size)}

\* The draws of the whole offspring loop: every child from the same draw,
\* or the parents taken in turn, each with the next survivor as partner.
\* Without a survivor there is no parent to draw.
OffspringPlans(count, survivorCount, size) ==
  IF survivorCount = 0 THEN {}
  ELSE
  {[k \in 1..count |-> d] :
     d \in {x \in OffspringDraws(survivorCount, size) : x.parent = 1}}
    \cup {[k \in 1..count |->
             [parent |-> ((k - 1) % survivorCount) + 1,
              partner |-> IF survivorCount > 1
                          THEN (k % survivorCount) + 1 ELSE 0,
              mask |-> g.mask, point |-> g.point, points |-> g.points,
              delta |-> g.delta]] : g \in GeneDraws(size)}

\* The draws of one startNewGeneration() from S.
GenerationDraws(S) ==
  LET size == GenomeSize(S.config)
      foodDraws == SpawnDraws(S.config.initialFoodCount)
  IN IF S.agents = << >>
     THEN {[genomes |-> g, offspring |-> << >>, foodTypes |-> f] :
             g \in GenomeDraws(S.config.initialAgentCount, size),
             f \in foodDraws}
     ELSE {[genomes |-> << >>, offspring |-> o, foodTypes |-> f] :
             o \in OffspringPlans(OffspringCount(S),
                                  Len(Survivors(S.agents)), size),
             f \in foodDraws}

NoDraws == [genomes |-> << >>, offspring |-> << >>, foodTypes |-> << >>]

\* What one agent can meet in a tick: a zone, food in reach, obstacles, or
\* a harsh zone with the first food item and an obstacle at once.
EventInputs(S) ==
  ({[DefaultInput EXCEPT !.mm = ZoneMetabolism(z)] : z \in S.zones}
     \cup {[DefaultInput EXCEPT !.eats = e] :
              e \in {x \in SUBSET (1..Len(S.foods)) : Cardinality(x) <= MaxEat}}
     \cup {[DefaultInput EXCEPT !.hits = h] :
              h \in 0..Min(MaxHits, S.obstacles)}
     \cup {[mm |-> ZoneMetabolism(z), eats |-> {1}, hits |-> 1] :
              z \in S.zones \cap {"harsh"}})
    \ {DefaultInput}

\* The roster positions whose agents may meet something: the first ones of
\* the window.
Actors(n, tick) ==
  {i \in Window(n, tick) :
     Cardinality({j \in Window(n, tick) : j < i}) < MaxActors}

\* The inputs of a tick in which at most k agents of the window meet
\* anything; the others are outside every zone, reach no food and hit
\* nothing.
RECURSIVE TickInputs(_, _)
TickInputs(S, k) ==
  LET n == Len(S.agents)
  IN IF k = 0 THEN {[i \in 1..n |-> DefaultInput]}
     ELSE LET less == TickInputs(S, k - 1)
          IN less \cup {[f EXCEPT ![i] = x] :
                          f \in less,
                          i \in Actors(n, S.tickCount + 1),
                          x \in EventInputs(S)}

EventCount(inp) == Cardinality({i \in DOMAIN inp : inp[i] # DefaultInput})

(***************************************************************************)
(* Initial states: the program some way into a run                         *)
(***************************************************************************)
\* main.ts: new Simulation(), then reset().
Boot(cfg, genomes, foodTypes) ==
  ResetSim(NewSimulation(cfg), genomes, foodTypes)

MaxOf(set) == CHOOSE x \in set : \A y \in set : x >= y

\* S after t more ticks of its generation in which every agent had a full
\* update and the i-th agent ended with energies[i]: ages, fitness and the
\* trackers' records follow.
MidRun(S, t, energies) ==
  LET ags == [i \in 1..Len(S.agents) |->
                [S.agents[i] EXCEPT
                   !.energy = energies[i], !.age = t,
                   !.fitness = t * EnergyScale + energies[i]]]
      fit(id) == LET i == CHOOSE j \in 1..Len(ags) : ags[j].id = id
                 IN ags[i].fitness
      ids == {ags[i].id : i \in 1..Len(ags)}
      lt == S.lineageTracker
      sm == S.speciesManager
  IN [S EXCEPT
        !.tickCount = t,
        !.agents = ags,
        !.lineageTracker =
           [lt EXCEPT !.currentTick = t,
                      !.records = [id \in DOMAIN lt.records |->
                         IF id \in ids
                         THEN [lt.records[id] EXCEPT !.maxFitness = fit(id)]
                         ELSE lt.records[id]]],
        !.speciesManager =
           [sm EXCEPT !.species = [k \in 1..Len(sm.species) |->
              LET mine == {i \in 1..Len(ags) : ags[i].sref = k}
              IN IF mine = {} THEN sm.species[k]
                 ELSE [sm.species[k] EXCEPT !.bestFitness =
                         MaxOf({ags[i].fitness : i \in mine})]]]]

LateTick == GenerationTicks - 1
MidTick == GenerationTicks \div 2

\* Energies of the roster some way into a generation.
EnergyProfiles(n) ==
  {[i \in 1..n |-> IF i <= 2 THEN (70 + 5 * i) * EnergyScale
                   ELSE (10 * i) * EnergyScale],
   [i \in 1..n |-> IF i = 1 THEN AgentMetabolismRate
                   ELSE IF i = 2 THEN 3 * EnergyScale
                   ELSE (20 * i) * EnergyScale],
   [i \in 1..n |-> AgentMetabolismRate]}

\* The second generation after the first went extinct in its tick t.
SecondGeneration(cfg, t, gd) ==
  LET n == cfg.initialAgentCount
      size == GenomeSize(cfg)
      first == MidRun(Boot(cfg, [i \in 1..n |-> ConstGenome(size, 0)],
                           [i \in 1..cfg.initialFoodCount |-> "basic"]),
                      t - 1, [i \in 1..n |-> AgentMetabolismRate])
  IN Update(first, [i \in 1..n |-> DefaultInput], << >>, gd)

Boots(cfg) ==
  {Boot(cfg, g, f) :
     g \in GenomeDraws(cfg.initialAgentCount, GenomeSize(cfg)),
     f \in {[i \in 1..cfg.initialFoodCount |->
               IF i = 1 THEN "poison" ELSE "basic"]}}

Seconds(cfg) ==
  {SecondGeneration(cfg, 3, gd) :
     gd \in {d \in GenerationDraws([NewSimulation(cfg) EXCEPT
                                      !.agents = << >>]) :
               \A i \in 1..Len(d.foodTypes) : d.foodTypes[i] = "basic"}}

InitialSims ==
  UNION {Boots(cfg)
           \cup {MidRun(S, MidTick, e) :
                   S \in Boots(cfg),
                   e \in EnergyProfiles(cfg.initialAgentCount)}
           \cup {MidRun(S, LateTick, e) :
                   S \in Boots(cfg) \cup Seconds(cfg),
                   e \in EnergyProfiles(cfg.initialAgentCount)} :
         cfg \in Configs}

(***************************************************************************)
(* The state machine                                                       *)
(***************************************************************************)
VARIABLES
  sim,      \* the Simulation object with its trackers
  stored,   \* localStorage['evolutionSimState'], or NoSnapshot
  file,     \* the last exported file, or NoSnapshot
  budget,   \* what the run may still do: ticks, events, ops
  obs,      \* what the last handler did (history)
  fair,     \* per agent object: ticks in a row without a full update (history)
  unit      \* the object a unit-level run exercises, or NoUnit

vars == <<sim, stored, file, budget, obs, fair, unit>>

NoUnit == << >>

NoObs ==
  [op |-> "init", ok |-> TRUE, log |-> << >>, transition |-> "none",
   roster |-> << >>, foodsBefore |-> 0, uneaten |-> << >>, whole |-> TRUE,
   births |-> << >>]

FreshFair(S) == [o \in Objs(S.agents) |-> 0]

\* A run spends its budget on encounters in the world or on the user's
\* buttons.
WorldBudget(ticks) == [ticks |-> ticks, events |-> MaxEvents, ops |-> 0]
SessionBudget(ticks) == [ticks |-> ticks, events |-> 0, ops |-> MaxOps]

InitWith(sims, saved, budgets) ==
  /\ sim \in sims
  /\ stored \in saved
  /\ file = NoSnapshot
  /\ budget \in budgets
  /\ obs = NoObs
  /\ fair = FreshFair(sim)
  /\ unit = NoUnit

\* localStorage outlives the page: a session starts with nothing stored,
\* or, freshly booted, with what an earlier session saved late in its
\* second generation.
Init ==
  \/ InitWith(InitialSims, {NoSnapshot},
              {WorldBudget(MaxTicks), SessionBudget(MaxTicks)})
  \/ InitWith(UNION {Boots(cfg) : cfg \in Configs},
              UNION {{Snapshot(MidRun(S, LateTick, e), FALSE) :
                        S \in Seconds(cfg),
                        e \in {x \in EnergyProfiles(cfg.initialAgentCount) :
                                 x[Len(x)] > AgentMetabolismRate}} :
                     cfg \in Configs},
              {SessionBudget(MaxTicks)})

\* One animation frame: Simulation.update().
Tick ==
  /\ budget.ticks > 0
  /\ \E inp \in TickInputs(sim, IF budget.events > 0 THEN 1 ELSE 0) :
     \E upd \in {UpdateAgentsAndFood(sim, inp)} :
     \E respawn \in SpawnDraws(ConsumedCount(upd.foods)) :
     \E mid \in {UpdateRest(sim, upd, respawn)} :
     \E gd \in IF GenerationEnds(mid) THEN GenerationDraws(mid) ELSE {NoDraws} :
     \E next \in {CheckGenerationEnd(mid, gd)} :
       /\ sim' = next
       /\ budget' = [budget EXCEPT !.ticks = budget.ticks - 1,
                                   !.events = budget.events - EventCount(inp)]
       /\ obs' = [NoObs EXCEPT
                    !.op = "tick",
                    !.log = upd.log,
                    !.transition = IF next = mid THEN "none"
                                   ELSE IF mid.agents = << >> THEN "reseeded"
                                   ELSE "bred",
                    !.roster = IF next = mid THEN << >> ELSE mid.agents,
                    !.births = IF next = mid THEN << >> ELSE Births(mid, gd),
                    !.foodsBefore = Len(sim.foods),
                    !.uneaten = Unconsumed(upd.foods)]
       /\ fair' = [o \in Objs(next.agents) |->
                     IF o \in DOMAIN fair
                        /\ \E k \in 1..Len(upd.log) :
                             upd.log[k].obj = o /\ ~upd.log[k].full
                     THEN fair[o] + 1 ELSE 0]
  /\ UNCHANGED <<stored, file, unit>>

\* The reset button: Simulation.reset().
Reset ==
  /\ budget.ops > 0
  /\ \E g \in GenomeDraws(sim.config.initialAgentCount,
                          GenomeSize(sim.config)),
        f \in SpawnDraws(sim.config.initialFoodCount) :
       /\ f[1] = "poison"
       /\ sim' = ResetSim(sim, g, f)
  /\ budget' = [budget EXCEPT !.ops = budget.ops - 1]
  /\ obs' = [NoObs EXCEPT !.op = "reset"]
  /\ fair' = FreshFair(sim')
  /\ UNCHANGED <<stored, file, unit>>

SaveToLocalStorage ==
  /\ budget.ops > 0
  /\ stored' = Snapshot(sim, FALSE)
  /\ budget' = [budget EXCEPT !.ops = budget.ops - 1]
  /\ obs' = [NoObs EXCEPT !.op = "save"]
  /\ UNCHANGED <<sim, file, fair, unit>>

ExportToFile ==
  /\ budget.ops > 0
  /\ file' = Snapshot(sim, TRUE)
  /\ budget' = [budget EXCEPT !.ops = budget.ops - 1]
  /\ obs' = [NoObs EXCEPT !.op = "export"]
  /\ UNCHANGED <<sim, stored, fair, unit>>

LoadFromLocalStorage ==
  /\ budget.ops > 0
  /\ IF stored = NoSnapshot
     THEN /\ sim' = sim
          /\ obs' = [NoObs EXCEPT !.op = "load", !.ok = FALSE]
     ELSE \E f \in IF stored.hasFood THEN {<< >>}
                    ELSE SpawnDraws(sim.config.initialFoodCount) :
          \E r \in {LoadState(sim, stored, f)} :
            /\ sim' = r.sim
            /\ obs' = [NoObs EXCEPT !.op = "load", !.ok = r.ok]
  /\ budget' = [budget EXCEPT !.ops = budget.ops - 1]
  /\ fair' = FreshFair(sim')
  /\ UNCHANGED <<stored, file, unit>>

ImportFromFile ==
  /\ budget.ops > 0
  /\ file # NoSnapshot
  /\ \E state \in {file} \cup PartialFiles(file) :
     \E f \in IF state.hasFood THEN {<< >>}
               ELSE SpawnDraws(sim.config.initialFoodCount) :
     \E r \in {LoadState(sim, state, f)} :
          /\ sim' = r.sim
          /\ obs' = [NoObs EXCEPT !.op = "import", !.ok = r.ok,
                                  !.whole = (state.missing = {})]
  /\ budget' = [budget EXCEPT !.ops = budget.ops - 1]
  /\ fair' = FreshFair(sim')
  /\ UNCHANGED <<stored, file, unit>>

Next ==
  \/ Tick
  \/ Reset
  \/ SaveToLocalStorage
  \/ ExportToFile
  \/ LoadFromLocalStorage
  \/ ImportFromFile

Spec == Init /\ [][Next]_vars

\* Rosters above the full-update limit, ticking.
BatchSims == UNION {Boots(cfg) : cfg \in BatchConfigs}

InitBatch == InitWith(BatchSims, {NoSnapshot}, {WorldBudget(BatchTicks)})

NextBatch == Tick

SpecBatch == InitBatch /\ [][NextBatch]_vars

(***************************************************************************)
(* Properties                                                              *)
(***************************************************************************)
Roster == sim.agents
Ledger == sim.lineageTracker

\* C1 -- Batch fairness: with N > 20 agents in the roster no agent goes
\* ceil(N / 10) ticks in a row without a full update, so every agent that
\* stays in the roster is fully updated at least once in every ceil(N / 10)
\* consecutive ticks.
C1_BatchFairness ==
  \A i \in 1..Len(Roster) :
    Len(Roster) > FullUpdateLimit =>
      fair[Roster[i].obj] < CeilDiv(Len(Roster), AgentBatchSize)

\* C2 -- For every id in the ledger, in every reachable state, getAncestors
\* terminates (the walk empties its queue) and returns only records whose id
\* is strictly less than the queried id.
C2_AncestorsTerminate ==
  \A id \in DOMAIN Ledger.records :
    LET walk == GetAncestors(Ledger, id, MaxWalk)
    IN /\ walk.done
       /\ \A k \in 1..Len(walk.ancestors) : walk.ancestors[k].id < id

\* C3 -- In every reachable state of the ledger every parent id stored in a
\* record is strictly less than the record's own id.
C3_ParentsOlder ==
  \A id \in DOMAIN Ledger.records :
    \A k \in 1..Len(Ledger.records[id].parentIds) :
      Ledger.records[id].parentIds[k] < id

\* C4 -- Lineage ids are never reused: no agent born in a tick (at a
\* generation transition) gets an id the ledger already held a record for
\* before that tick, so no birth overwrites a record.
C4_IdsNeverReused ==
  [][obs'.op = "tick" =>
       \A i \in 1..Len(sim'.agents) :
         sim'.agents[i].obj >= sim.nextObj =>
           ~HasRecord(sim.lineageTracker, sim'.agents[i].id)]_vars

\* C5 -- Generation sizing: after a generation transition that starts with a
\* non-empty roster of size n the new roster has exactly initialAgentCount
\* agents, and it holds ceil(n / 4) agents of the old roster, none of them
\* less fit than an agent of the old roster that was not kept.
C5_GenerationSizing ==
  (obs.op = "tick" /\ obs.transition = "bred") =>
    LET n == Len(obs.roster)
        kept == {i \in 1..n : obs.roster[i].obj \in Objs(Roster)}
    IN /\ Len(Roster) = sim.config.initialAgentCount
       /\ Cardinality(kept) = CeilDiv(n, 4)
       /\ \A i \in kept : \A j \in (1..n) \ kept :
            obs.roster[i].fitness >= obs.roster[j].fitness

\* The transition started with a roster whose size is no multiple of four
\* and whose agents differ in fitness.
C5_Witness ==
  /\ obs.op = "tick" /\ obs.transition = "bred"
  /\ Len(obs.roster) % 4 # 0
  /\ Len(obs.roster) > 1
  /\ \E i, j \in 1..Len(obs.roster) :
       obs.roster[i].fitness # obs.roster[j].fitness

\* C6 -- Round trip: after importing the exported file the agents have the
\* ids, genomes (weights and mutation rate), energies and fitness values of
\* the file, and every species has the member list it had at export time.
C6_RoundTrip ==
  (obs.op = "import" /\ obs.ok /\ obs.whole) =>
    /\ Len(Roster) = Len(file.agents)
    /\ \A i \in 1..Len(Roster) :
         /\ Roster[i].id = file.agents[i].id
         /\ Roster[i].genome = file.agents[i].genome
         /\ Roster[i].energy = file.agents[i].energy
         /\ Roster[i].fitness = file.agents[i].fitness
    /\ Len(sim.speciesManager.species) = Len(file.species)
    /\ \A k \in 1..Len(file.species) :
         sim.speciesManager.species[k].members = file.species[k].members

\* C7 -- A load of a malformed or partial state reports the failure and
\* leaves generation, tick count, roster, species list and lineage records
\* exactly as they were.
C7_FailedLoadLeavesState ==
  [][(obs'.op = "import" /\ ~obs'.whole) =>
       /\ ~obs'.ok
       /\ sim'.generation = sim.generation
       /\ sim'.tickCount = sim.tickCount
       /\ sim'.agents = sim.agents
       /\ sim'.speciesManager.species = sim.speciesManager.species
       /\ sim'.lineageTracker.records = sim.lineageTracker.records]_vars

\* C8 -- Resource release: every agent that was in the roster when a tick
\* began and is not in it when the tick ends (it died, or it was pruned at
\* the generation boundary) has had dispose() called.
C8_DisposeOnRemoval ==
  obs.op = "tick" =>
    \A k \in 1..Len(obs.log) :
      obs.log[k].obj \notin Objs(Roster) => obs.log[k].obj \in sim.disposed

\* baseRate x metabolismMultiplier, the multiplier in tenths.
Drain(mm) == (AgentMetabolismRate * mm) \div 10

C10_FoodCount ==
  (obs.op = "tick" /\ obs.transition = "none") =>
    /\ Len(sim.foods) = obs.foodsBefore
    /\ \A k \in 1..Len(sim.foods) : ~sim.foods[k].isConsumed
    /\ Len(obs.uneaten) <= Len(sim.foods)
    /\ SubSeq(sim.foods, 1, Len(obs.uneaten)) = obs.uneaten

\* A tick inside a generation in which food was eaten.
C10_Witness ==
  /\ obs.op = "tick" /\ obs.transition = "none"
  /\ Len(obs.uneaten) < obs.foodsBefore

(***************************************************************************)
(* Agent physics (positions in 1/PosScale of a pixel)                      *)
(***************************************************************************)
PosScale == 2 * 5
WorldWidth == 800 * PosScale
WorldHeight == 600 * PosScale
AgentMaxSpeed == 2 * PosScale
DayMovement == 10
NightMovement == 7

PhysicsTicks == 3

Vector(x, y) == [x |-> x, y |-> y]

\* Division rounding toward zero, as the nearest fixed-point stand-in for
\* the floating-point quotient.
TruncDiv(a, b) == IF a >= 0 THEN a \div b ELSE -((-a) \div b)

AddVectors(v1, v2) == Vector(v1.x + v2.x, v1.y + v2.y)

\* multiplyVector with the scalar in tenths.
MultiplyVector(v, tenths) ==
  Vector(TruncDiv(v.x * tenths, 10), TruncDiv(v.y * tenths, 10))

ISqrt(n) == CHOOSE r \in 0..n : r * r <= n /\ (r + 1) * (r + 1) > n

LimitVector(v, max) ==
  LET squared == v.x * v.x + v.y * v.y
  IN IF squared > max * max
     THEN LET mag == ISqrt(squared)
          IN Vector(TruncDiv(v.x * max, mag), TruncDiv(v.y * max, mag))
     ELSE v

\* The position after velocity and position are integrated, before the
\* edges are looked at.
Integrate(body, movementMultiplier) ==
  LET velocity == LimitVector(AddVectors(body.velocity, body.acceleration),
                              TruncDiv(AgentMaxSpeed * movementMultiplier, 10))
  IN [body EXCEPT
        !.velocity = velocity,
        !.position = AddVectors(body.position,
                                MultiplyVector(velocity, movementMultiplier))]

\* The two edge tests of one axis, in the order the code makes them.
WrapAxis(c, limit) ==
  LET low == IF c < 0 THEN limit ELSE c
  IN IF low > limit THEN 0 ELSE low

UpdatePhysics(body, movementMultiplier) ==
  LET moved == Integrate(body, movementMultiplier)
  IN [moved EXCEPT
        !.position = Vector(WrapAxis(moved.position.x, WorldWidth),
                            WrapAxis(moved.position.y, WorldHeight))]

\* Bodies near the edges of the world, moving at up to one pixel a tick.
EdgeBodies ==
  {[position |-> Vector(x, y), velocity |-> Vector(vx, vy),
    acceleration |-> Vector(0, 0)] :
     x \in {0, PosScale, WorldWidth - PosScale, WorldWidth},
     y \in {0, WorldHeight - PosScale},
     vx \in {-PosScale, 0, PosScale},
     vy \in {-PosScale, 0, PosScale}}

\* What applyOutputs may leave in the acceleration: at most
\* agentMaxForce * 2 along each axis.
Accelerations == {Vector(0, 0), Vector(2, 0), Vector(-2, 0), Vector(0, 2),
                  Vector(0, -2)}

InitPhysics ==
  /\ unit \in EdgeBodies
  /\ budget = WorldBudget(PhysicsTicks)
  /\ obs = [op |-> "init", integrated |-> unit.position]
  /\ sim = NoUnit
  /\ stored = NoSnapshot
  /\ file = NoSnapshot
  /\ fair = << >>

\* Agent.update's tail: the outputs set the acceleration, then the physics
\* step of the tick.
FullPhysics ==
  /\ budget.ticks > 0
  /\ \E acc \in Accelerations, mm \in {DayMovement, NightMovement} :
     \E body \in {[unit EXCEPT !.acceleration = acc]} :
       /\ unit' = UpdatePhysics(body, mm)
       /\ obs' = [op |-> "physics",
                  integrated |-> Integrate(body, mm).position]
  /\ budget' = [budget EXCEPT !.ticks = budget.ticks - 1]
  /\ UNCHANGED <<sim, stored, file, fair>>

\* The batch branch's simple update: physics with the acceleration as the
\* last full update left it.
SimplePhysics ==
  /\ budget.ticks > 0
  /\ \E mm \in {DayMovement, NightMovement} :
       /\ unit' = UpdatePhysics(unit, mm)
       /\ obs' = [op |-> "physics",
                  integrated |-> Integrate(unit, mm).position]
  /\ budget' = [budget EXCEPT !.ticks = budget.ticks - 1]
  /\ UNCHANGED <<sim, stored, file, fair>>

NextPhysics == FullPhysics \/ SimplePhysics

SpecPhysics == InitPhysics /\ [][NextPhysics]_vars

\* C11 -- Toroidal wrap: after physics integration an agent whose
\* integrated x equals worldWidth is placed at x = 0, and an agent whose
\* integrated x is negative is placed at x = worldWidth; likewise for y and
\* worldHeight.
C11_ToroidalWrap ==
  obs.op = "physics" =>
    /\ obs.integrated.x = WorldWidth => unit.position.x = 0
    /\ obs.integrated.x < 0 => unit.position.x = WorldWidth
    /\ obs.integrated.y = WorldHeight => unit.position.y = 0
    /\ obs.integrated.y < 0 => unit.position.y = WorldHeight

\* The half of C11 the code does implement: a negative coordinate is placed
\* on the far edge, a coordinate past the far edge at 0, and a coordinate
\* on the far edge stays there.
C11_WrapAsCoded ==
  obs.op = "physics" =>
    /\ obs.integrated.x < 0 => unit.position.x = WorldWidth
    /\ obs.integrated.x > WorldWidth => unit.position.x = 0
    /\ obs.integrated.x = WorldWidth => unit.position.x = WorldWidth
    /\ obs.integrated.y < 0 => unit.position.y = WorldHeight
    /\ obs.integrated.y > WorldHeight => unit.position.y = 0

C11_Witness ==
  /\ obs.op = "physics"
  /\ obs.integrated.x = WorldWidth
  /\ unit.position.x = WorldWidth

(***************************************************************************)
(* The two mutate functions, as functions of what Math.random() returns    *)
(***************************************************************************)
\* Math.random() values are in 1/RandScale; rnd is the pattern the calls
\* return, repeated for as long as the function keeps drawing.
RandScale == 10 * 100
NormalScale == 10 * 10
ConfigMutationRate == RateScale \div 20
MutationAmount == WeightScale \div 10
MinMutationRate == RateScale \div 1000
MaxMutationRate == (3 * RateScale) \div 10
RateMutationChance == RateScale \div 10

GeneticSteps == 3
MaxBirths == 1

Draw(rnd, k) == rnd[((k - 1) % Len(rnd)) + 1]

\* Math.random() < rate
Selected(roll, rate) == roll * (RateScale \div RandScale) < rate

\* (Math.random() * 2 - 1) * amount
Spread(u, amount) == TruncDiv((2 * u - RandScale) * amount, RandScale)

\* mutation.ts mutate(genome, rate, amount): what every weight receives,
\* drawing from position k on.
RECURSIVE MutationDelta(_, _, _, _, _)
MutationDelta(n, rnd, k, rate, amount) ==
  IF n = 0 THEN << >>
  ELSE IF Selected(Draw(rnd, k), rate)
       THEN <<Spread(Draw(rnd, k + 1), amount)>>
            \o MutationDelta(n - 1, rnd, k + 2, rate, amount)
       ELSE <<0>> \o MutationDelta(n - 1, rnd, k + 1, rate, amount)

\* A faulty variant of ClampRate: the ceiling is missing.
ClampRateBuggyNoCeiling(rate) == Max(MinMutationRate, rate)

\* Math.max(0.001, Math.min(0.3, rate))
ClampRate(rate) == Max(MinMutationRate, Min(MaxMutationRate, rate))

\* The first position from k on whose draw is not 0 (the while loops of
\* randomNormal).
NonZeroFrom(rnd, k) ==
  CHOOSE j \in k..(k + Len(rnd)) :
    /\ Draw(rnd, j) # 0
    /\ \A i \in k..(j - 1) : Draw(rnd, i) = 0

\* sqrt(-2 ln u) and cos(2 pi v) in 1/NormalScale, at the values the
\* patterns draw.
BoxMullerRadius(u) ==
  CASE u = 20 -> 280
    [] u = 500 -> 118
    [] u = 950 -> 32

BoxMullerCosine(v) ==
  CASE v = 20 -> 99
    [] v = 500 -> 0 - 100
    [] v = 950 -> 95

\* randomNormal(), drawing from position k on: the sample and the position
\* of the next draw.
RandomNormal(rnd, k) ==
  LET pu == NonZeroFrom(rnd, k)
      pv == NonZeroFrom(rnd, pu + 1)
  IN [value |-> TruncDiv(BoxMullerRadius(Draw(rnd, pu))
                           * BoxMullerCosine(Draw(rnd, pv)), NormalScale),
      next |-> pv + 1]

\* The weight loop of the self-adaptive mutate.
RECURSIVE AdaptWeights(_, _, _, _)
AdaptWeights(weights, rnd, k, rate) ==
  IF weights = << >> THEN << >>
  ELSE IF Selected(Draw(rnd, k), rate)
       THEN LET n == RandomNormal(rnd, k + 1)
            IN <<Head(weights)
                   + TruncDiv(n.value * 2 * WeightScale, 10 * NormalScale)>>
               \o AdaptWeights(Tail(weights), rnd, n.next, rate)
       ELSE <<Head(weights)>> \o AdaptWeights(Tail(weights), rnd, k + 1, rate)

\* The rate the self-adaptive mutate leaves, given the draw u of the change.
PerturbedRate(rate, u) ==
  ClampRate(rate + TruncDiv((2 * u - RandScale) * rate, 2 * RandScale))

\* genome.ts mutate(genome), the self-adaptive one.
SelfAdaptiveMutate(genome, rnd) ==
  LET perturb == Selected(Draw(rnd, 1), RateMutationChance)
      rate == IF perturb THEN PerturbedRate(genome.mutationRate, Draw(rnd, 2))
              ELSE genome.mutationRate
  IN Genome(AdaptWeights(genome.weights, rnd, IF perturb THEN 3 ELSE 2, rate),
            rate)

\* What Math.random() returns to a mutate call: nothing is selected; the
\* rate goes up and weights move; the rate is redrawn but stays; the rate
\* goes down; only weights move.
RandomPatterns ==
  {<<500>>, <<20, 950>>, <<0, 500>>, <<20, 0>>, <<950, 20>>}

(***************************************************************************)
(* The genetic operators at work on one pair of parents                    *)
(***************************************************************************)
\* A network of two inputs and one output.
GeneSize == ExpectedWeights(<<2, 1>>)

Breeder(genome, energy) ==
  [NewAgent(1, genome, 1) EXCEPT !.energy = energy]

\* The draws of one reproduce(): the generation that picks the crossover
\* type, the crossover's draws, then mutate's.
ReproduceDraws(size) ==
  {[gen |-> g, mask |-> {1}, point |-> size - 1, points |-> <<1, size - 1>>,
    rnd |-> rnd,
    delta |-> MutationDelta(size, rnd, 1, ConfigMutationRate,
                            MutationAmount)] :
     g \in {1, 5, 15}, rnd \in RandomPatterns}

\* The rate after the self-adaptive mutate changed it n times with the
\* same draw u.
RECURSIVE RateAfter(_, _, _)
RateAfter(rate, u, n) ==
  IF n = 0 THEN rate ELSE RateAfter(PerturbedRate(rate, u), u, n - 1)

\* Parents at the start of a lineage, or after four rate changes upwards
\* or five downwards.
Lineages ==
  {Genome(g.weights, r) :
     g \in RandomGenomes(GeneSize),
     r \in {DefaultMutationRate, RateAfter(DefaultMutationRate, 950, 4),
            RateAfter(DefaultMutationRate, 0, 5)}}

InitGenetics ==
  /\ unit \in [parent : Lineages,
               partner : {ConstGenome(GeneSize, WeightScale - 1)},
               partnerEnergy : {AgentReproductionEnergy, AgentMaxEnergy}]
  /\ budget = [ticks |-> GeneticSteps, events |-> MaxBirths, ops |-> 0]
  /\ obs = [op |-> "init"]
  /\ sim = NoUnit
  /\ stored = NoSnapshot
  /\ file = NoSnapshot
  /\ fair = << >>

\* Agent.reproduce(partner), with or without a partner; the child is the
\* parent of the next step and the old parent its partner.
Reproduce ==
  /\ budget.events > 0
  /\ \E draw \in ReproduceDraws(GeneSize),
        partner \in {NoAgent, Breeder(unit.partner, unit.partnerEnergy)} :
     \E parent \in {Breeder(unit.parent, AgentMaxEnergy)} :
     \E child \in {ChildGenome(parent, partner, draw.gen, draw)} :
       /\ unit' = [unit EXCEPT !.parent = child, !.partner = unit.parent]
       /\ obs' = [op |-> "reproduce",
                  base |-> ChildBase(parent, partner, draw.gen, draw),
                  rnd |-> draw.rnd, child |-> child]
  /\ budget' = [budget EXCEPT !.events = budget.events - 1]
  /\ UNCHANGED <<sim, stored, file, fair>>

\* The self-adaptive mutate applied to the parent's genome.
SelfAdapt ==
  /\ budget.ticks > 0
  /\ \E rnd \in RandomPatterns :
     \E child \in {SelfAdaptiveMutate(unit.parent, rnd)} :
       /\ unit' = [unit EXCEPT !.parent = child]
       /\ obs' = [op |-> "selfAdapt", base |-> unit.parent, rnd |-> rnd,
                  child |-> child]
  /\ budget' = [budget EXCEPT !.ticks = budget.ticks - 1]
  /\ UNCHANGED <<sim, stored, file, fair>>

NextGenetics == Reproduce \/ SelfAdapt

SpecGenetics == InitGenetics /\ [][NextGenetics]_vars

\* C12 -- Reproduction applies self-adaptive mutation to the child's
\* genome: when the draw for the rate falls under 10% the child's rate is
\* the base rate perturbed by up to 50% of its value and clamped to
\* [0.001, 0.3], and the weights are then perturbed with that rate as the
\* per-weight probability; that is, the child is what the self-adaptive
\* mutate makes of the genome reproduce holds.
C12_SelfAdaptiveReproduction ==
  obs.op = "reproduce" => obs.child = SelfAdaptiveMutate(obs.base, obs.rnd)

\* What the code does instead: reproduce never changes the rate.
C12_RateNeverPerturbed ==
  obs.op = "reproduce" => obs.child.mutationRate = obs.base.mutationRate

C12_Witness ==
  /\ obs.op = "reproduce"
  /\ Selected(Draw(obs.rnd, 1), RateMutationChance)
  /\ obs.child.mutationRate = obs.base.mutationRate
  /\ SelfAdaptiveMutate(obs.base, obs.rnd).mutationRate
       # obs.base.mutationRate

RateInBounds(genome) ==
  /\ genome.mutationRate >= MinMutationRate
  /\ genome.mutationRate <= MaxMutationRate

\* C13 -- Mutation-rate bound: starting from genomes created by the
\* simulation, after any sequence of self-adaptive mutations and
\* reproduction steps (the averaging of two parents' rates included), every
\* genome's mutationRate lies within [0.001, 0.3].
C13_MutationRateBound ==
  /\ RateInBounds(unit.parent)
  /\ RateInBounds(unit.partner)
  /\ obs.op \in {"reproduce", "selfAdapt"} => RateInBounds(obs.child)

\* A self-adaptive mutation whose change would carry the rate past 0.3 and
\* is held at 0.3.
C13_Witness ==
  /\ obs.op = "selfAdapt"
  /\ obs.base.mutationRate < MaxMutationRate
  /\ obs.child.mutationRate = MaxMutationRate
  /\ obs.base.mutationRate
       + TruncDiv((2 * Draw(obs.rnd, 2) - RandScale) * obs.base.mutationRate,
                  2 * RandScale) > MaxMutationRate

(***************************************************************************)
(* The SpeciesManager at work: assignments, generations, save and restore  *)
(***************************************************************************)
SpeciesSteps == 5

\* A network of three inputs and one output.
SpeciesGeneSize == ExpectedWeights(<<3, 1>>)

\* Genomes as calls of assignSpecies see them: the two corners of
\* Genome.random's cube, and genomes mutation has carried to 1.0, to half
\* way between the corners, and far out.
SpeciesGenomes ==
  {ConstGenome(SpeciesGeneSize, 0 - WeightScale),
   ConstGenome(SpeciesGeneSize, WeightScale - 1),
   ConstGenome(SpeciesGeneSize, WeightScale),
   Genome([i \in 1..SpeciesGeneSize |->
             IF 2 * i <= SpeciesGeneSize THEN 0 - WeightScale
             ELSE WeightScale], DefaultMutationRate),
   ConstGenome(SpeciesGeneSize, 5 * WeightScale)}

InitSpecies ==
  /\ unit = [sm |-> NewSpeciesManager, saved |-> << >>, hasSaved |-> FALSE,
             nextAgentId |-> 1]
  /\ budget = WorldBudget(SpeciesSteps)
  /\ obs = [op |-> "init"]
  /\ sim = NoUnit
  /\ stored = NoSnapshot
  /\ file = NoSnapshot
  /\ fair = << >>

\* assignSpecies(genome, agentId) for the agent just born.
Assign ==
  /\ budget.ticks > 0
  /\ \E genome \in SpeciesGenomes :
     \E r \in {AssignSpecies(unit.sm, genome, unit.nextAgentId)} :
       /\ unit' = [unit EXCEPT !.sm = r.sm,
                               !.nextAgentId = unit.nextAgentId + 1]
       /\ obs' = [op |-> "assign", before |-> unit.sm, genome |-> genome,
                  agentId |-> unit.nextAgentId, ref |-> r.ref]
  /\ budget' = [budget EXCEPT !.ticks = budget.ticks - 1]
  /\ UNCHANGED <<sim, stored, file, fair>>

\* advanceGeneration()
Advance ==
  /\ budget.ticks > 0
  /\ unit' = [unit EXCEPT !.sm = SpeciesAdvanceGeneration(unit.sm)]
  /\ obs' = [op |-> "advance"]
  /\ budget' = [budget EXCEPT !.ticks = budget.ticks - 1]
  /\ UNCHANGED <<sim, stored, file, fair>>

\* The species part of saveToLocalStorage / exportToFile.
SaveSpecies ==
  /\ budget.ticks > 0
  /\ unit' = [unit EXCEPT !.saved = SpeciesData(unit.sm), !.hasSaved = TRUE]
  /\ obs' = [op |-> "save"]
  /\ budget' = [budget EXCEPT !.ticks = budget.ticks - 1]
  /\ UNCHANGED <<sim, stored, file, fair>>

\* Simulation.reset(), or the page loaded again: a new SpeciesManager()
\* and a new LineageTracker(), whose ids start at 1.
RenewManager ==
  /\ budget.ticks > 0
  /\ unit' = [unit EXCEPT !.sm = NewSpeciesManager, !.nextAgentId = 1]
  /\ obs' = [op |-> "renew"]
  /\ budget' = [budget EXCEPT !.ticks = budget.ticks - 1]
  /\ UNCHANGED <<sim, stored, file, fair>>

\* restoreSpecies(state.species): clearAllSpecies, then createSpecies for
\* every saved species.
Restore ==
  /\ budget.ticks > 0
  /\ unit.hasSaved
  /\ unit' = [unit EXCEPT !.sm = RestoreSpecies(unit.sm, unit.saved)]
  /\ obs' = [op |-> "restore"]
  /\ budget' = [budget EXCEPT !.ticks = budget.ticks - 1]
  /\ UNCHANGED <<sim, stored, file, fair>>

NextSpecies ==
  \/ Assign
  \/ Advance
  \/ SaveSpecies
  \/ RenewManager
  \/ Restore

SpecSpecies == InitSpecies /\ [][NextSpecies]_vars

\* The species, in creation order, whose representative is at Euclidean
\* distance < 4.0 from the genome.
Near(species, genome) ==
  {i \in 1..Len(species) :
     SumSquaredDiff(genome.weights, species[i].representative.weights)
       < (4 * WeightScale) * (4 * WeightScale)}

\* C14 -- Speciation: assignSpecies returns the first species, in creation
\* order, whose representative is at Euclidean distance < 4.0 from the
\* genome and adds the agent id to its members; if and only if no species
\* matches it creates a new species with that genome as representative and
\* the agent as first member.
C14_Speciation ==
  obs.op = "assign" =>
    LET before == obs.before.species
        after == unit.sm.species
        near == Near(before, obs.genome)
    IN IF near # {}
       THEN /\ obs.ref \in near
            /\ \A j \in near : obs.ref <= j
            /\ Len(after) = Len(before)
            /\ obs.agentId \in SeqRange(after[obs.ref].members)
            /\ \A i \in 1..Len(before) :
                 /\ after[i].id = before[i].id
                 /\ after[i].representative = before[i].representative
                 /\ i # obs.ref => after[i] = before[i]
       ELSE /\ Len(after) = Len(before) + 1
            /\ obs.ref = Len(after)
            /\ SubSeq(after, 1, Len(before)) = before
            /\ after[obs.ref].representative = obs.genome
            /\ after[obs.ref].members = <<obs.agentId>>

\* A genome within reach of two representatives joins the older species.
C14_Witness ==
  /\ obs.op = "assign"
  /\ Cardinality(Near(obs.before.species, obs.genome)) >= 2
  /\ obs.ref = 1
  /\ obs.agentId \in SeqRange(unit.sm.species[1].members)

\* A genome at exactly 4.0 from the only representative founds a species.
C14_WitnessBoundary ==
  /\ obs.op = "assign"
  /\ Len(obs.before.species) = 1
  /\ SumSquaredDiff(obs.genome.weights,
                    obs.before.species[1].representative.weights)
       = DistanceThreshold * DistanceThreshold
  /\ Len(unit.sm.species) = 2

SpeciesIds(sm) == {sm.species[i].id : i \in 1..Len(sm.species)}

\* C15 -- Species ids are unique: no two species held by the
\* SpeciesManager ever share an id, after any sequence of assignSpecies,
\* advanceGeneration, clearAllSpecies and createSpecies (state restore)
\* operations.
C15_SpeciesIdsUnique ==
  Cardinality(SpeciesIds(unit.sm)) = Len(unit.sm.species)

\* A restored manager hands out an id one of its species already has.
C15_Witness ==
  /\ obs.op = "assign"
  /\ obs.ref = Len(unit.sm.species)
  /\ \E i \in 1..(obs.ref - 1) :
       unit.sm.species[i].id = unit.sm.species[obs.ref].id

(***************************************************************************)
(* crossover on pairs of parents                                           *)
(***************************************************************************)
CrossSteps == 2

\* A network of four inputs and one output: five weights.
CrossGeneSize == ExpectedWeights(<<4, 1>>)

\* Parents whose weights are 0.0 or 1.0, so that every weight of a child
\* shows the parent it came from when the parents differ there.
CrossParents ==
  {Genome(w, DefaultMutationRate) :
     w \in [1..CrossGeneSize -> {0, WeightScale}]}

\* The draws of one crossover(): the type, UNIFORM's choices, SINGLE_POINT's
\* Math.floor(Math.random() * length), MULTI_POINT's sorted points.
CrossDraws(size) ==
  {[type |-> "UNIFORM", mask |-> m, point |-> 0, points |-> <<0, 0>>] :
     m \in {{}, {i \in 1..size : i % 2 = 1}}}
  \cup {[type |-> "SINGLE_POINT", mask |-> {}, point |-> p,
         points |-> <<0, 0>>] : p \in 0..(size - 1)}
  \cup {[type |-> "MULTI_POINT", mask |-> {}, point |-> 0, points |-> ps] :
          ps \in {<<0, 2>>, <<1, 3, 3>>, <<0, 1, 2, size - 1>>}}

InitCross ==
  /\ unit \in [parent1 : CrossParents, parent2 : CrossParents]
  /\ budget = WorldBudget(CrossSteps)
  /\ obs = [op |-> "init"]
  /\ sim = NoUnit
  /\ stored = NoSnapshot
  /\ file = NoSnapshot
  /\ fair = << >>

\* crossover(parent1, parent2, crossoverType); the child is a parent of the
\* next crossover.
Cross ==
  /\ budget.ticks > 0
  /\ \E draw \in CrossDraws(CrossGeneSize) :
     \E child \in {Crossover(unit.parent1, unit.parent2, draw.type, draw)} :
       /\ unit' = [unit EXCEPT !.parent2 = child]
       /\ obs' = [op |-> "cross", type |-> draw.type, point |-> draw.point,
                  parent1 |-> unit.parent1, parent2 |-> unit.parent2,
                  child |-> child]
  /\ budget' = [budget EXCEPT !.ticks = budget.ticks - 1]
  /\ UNCHANGED <<sim, stored, file, fair>>

NextCross == Cross

SpecCross == InitCross /\ [][NextCross]_vars

\* C16 -- SINGLE_POINT crossover of two equal-length parents with
\* crossover index p in [0, length) returns a child of the same length
\* whose weights at (0-based) positions < p are parent1's and at positions
\* >= p are parent2's.
C16_SinglePoint ==
  obs.op = "cross" /\ obs.type = "SINGLE_POINT" =>
    /\ Len(obs.child.weights) = Len(obs.parent1.weights)
    /\ \A i \in 1..Len(obs.child.weights) :
         obs.child.weights[i] = IF i - 1 < obs.point
                                THEN obs.parent1.weights[i]
                                ELSE obs.parent2.weights[i]

\* The example: [1,1,1,1,1] and [0,0,0,0,0] at p = 2 give [1,1,0,0,0].
C16_Witness ==
  /\ obs.op = "cross"
  /\ obs.type = "SINGLE_POINT"
  /\ obs.point = 2
  /\ obs.parent1.weights = [i \in 1..CrossGeneSize |-> WeightScale]
  /\ obs.parent2.weights = [i \in 1..CrossGeneSize |-> 0]
  /\ obs.child.weights = <<WeightScale, WeightScale, 0, 0, 0>>

(***************************************************************************)
(* TimeController (times in 1/TimeUnit of a millisecond)                   *)
(***************************************************************************)
TimeUnit == 1 + 2
TickRate == 60
SimulationSpeed == 1
TimeStep == (1000 * TimeUnit) \div TickRate

ClockSteps == 8
MaxCallbacks == 2

NewTimeController ==
  [lastTime |-> 0, accumulator |-> 0, running |-> FALSE,
   tickCallbacks |-> << >>, renderCallbacks |-> << >>]

\* onTick(callback) / onRender(callback)
OnTickRegister(tc, callback) ==
  [tc EXCEPT !.tickCallbacks = Append(tc.tickCallbacks, callback)]

OnRenderRegister(tc, callback) ==
  [tc EXCEPT !.renderCallbacks = Append(tc.renderCallbacks, callback)]

\* A faulty variant of StartController: the clock is not sampled again.
StartControllerBuggyStaleClock(tc, now) ==
  IF ~tc.running
  THEN [tc |-> [tc EXCEPT !.running = TRUE], requested |-> TRUE]
  ELSE [tc |-> tc, requested |-> FALSE]

\* start(): the controller, and whether a frame was requested.
StartController(tc, now) ==
  IF ~tc.running
  THEN [tc |-> [tc EXCEPT !.running = TRUE, !.lastTime = now],
        requested |-> TRUE]
  ELSE [tc |-> tc, requested |-> FALSE]

\* pause()
PauseController(tc) == [tc EXCEPT !.running = FALSE]

\* One for-of over a callback list: the calls it makes, in order.  tick is
\* the number of the tick within the frame, 0 for the render pass.
CallAll(callbacks, kind, tick) ==
  [i \in 1..Len(callbacks) |->
     [kind |-> kind, cb |-> callbacks[i], tick |-> tick]]

\* The while loop of loop(): the accumulator left and the calls made.
RECURSIVE DrainTicks(_, _, _, _)
DrainTicks(accumulator, tickCallbacks, calls, tick) ==
  IF accumulator >= TimeStep
  THEN DrainTicks(accumulator - TimeStep, tickCallbacks,
                  calls \o CallAll(tickCallbacks, "tick", tick), tick + 1)
  ELSE [accumulator |-> accumulator, calls |-> calls]

\* A faulty variant of Loop: the render callbacks run before the ticks are
\* drained.
LoopBuggyRenderFirst(tc, currentTime) ==
  IF ~tc.running
  THEN [tc |-> tc, calls |-> << >>, requested |-> FALSE, delta |-> 0]
  ELSE LET deltaTime == currentTime - tc.lastTime
           drained == DrainTicks(tc.accumulator + deltaTime * SimulationSpeed,
                                 tc.tickCallbacks, << >>, 1)
       IN [tc |-> [tc EXCEPT !.lastTime = currentTime,
                             !.accumulator = drained.accumulator],
           calls |-> CallAll(tc.renderCallbacks, "render", 0)
                       \o drained.calls,
           requested |-> TRUE, delta |-> deltaTime]

\* loop(currentTime): the controller, the calls made in order, whether the
\* next frame was requested, and the delta measured.
Loop(tc, currentTime) ==
  IF ~tc.running
  THEN [tc |-> tc, calls |-> << >>, requested |-> FALSE, delta |-> 0]
  ELSE LET deltaTime == currentTime - tc.lastTime
           drained == DrainTicks(tc.accumulator + deltaTime * SimulationSpeed,
                                 tc.tickCallbacks, << >>, 1)
       IN [tc |-> [tc EXCEPT !.lastTime = currentTime,
                             !.accumulator = drained.accumulator],
           calls |-> drained.calls
                       \o CallAll(tc.renderCallbacks, "render", 0),
           requested |-> TRUE, delta |-> deltaTime]

\* Wall-clock time between two events: less than a tick, a tick and a bit,
\* more than two ticks.
Waits == {TimeStep - 20, TimeStep + 10, 2 * TimeStep + 20}

\* unit.tc is the controller; pending counts the loop callbacks the browser
\* holds for the next frames, now is the clock.  History: startedAt (the
\* clock at the last effective start()), fresh (no frame ran since then),
\* ranFor and pausedFor (wall-clock time passed while running and while
\* paused), credited (time added to the accumulator).
InitClock ==
  /\ unit = [tc |-> OnTickRegister(NewTimeController, 1), pending |-> 0,
             now |-> 0, startedAt |-> 0, fresh |-> FALSE, ranFor |-> 0,
             pausedFor |-> 0, credited |-> 0]
  /\ budget = WorldBudget(ClockSteps)
  /\ obs = [op |-> "init"]
  /\ sim = NoUnit
  /\ stored = NoSnapshot
  /\ file = NoSnapshot
  /\ fair = << >>

Spend ==
  /\ budget.ticks > 0
  /\ budget' = [budget EXCEPT !.ticks = budget.ticks - 1]
  /\ UNCHANGED <<sim, stored, file, fair>>

\* Another subscriber: timeController.onTick(...)
OnTick ==
  /\ Len(unit.tc.tickCallbacks) < MaxCallbacks
  /\ unit' = [unit EXCEPT !.tc =
                OnTickRegister(unit.tc, Len(unit.tc.tickCallbacks) + 1)]
  /\ obs' = [op |-> "onTick"]
  /\ Spend

\* Simulation.onRender(callback), as the renderer calls it.
OnRender ==
  /\ Len(unit.tc.renderCallbacks) < MaxCallbacks
  /\ unit' = [unit EXCEPT !.tc =
                OnRenderRegister(unit.tc, Len(unit.tc.renderCallbacks) + 1)]
  /\ obs' = [op |-> "onRender"]
  /\ Spend

\* The start button.
Start ==
  /\ \E r \in {StartController(unit.tc, unit.now)} :
       /\ unit' = [unit EXCEPT
                     !.tc = r.tc,
                     !.pending = IF r.requested THEN @ + 1 ELSE @,
                     !.startedAt = IF r.requested THEN unit.now ELSE @,
                     !.fresh = IF r.requested THEN TRUE ELSE @]
       /\ obs' = [op |-> "start", effective |-> r.requested]
  /\ Spend

\* The pause button (and every load).
Pause ==
  /\ unit' = [unit EXCEPT !.tc = PauseController(unit.tc)]
  /\ obs' = [op |-> "pause"]
  /\ Spend

\* Wall-clock time passes.
Wait ==
  /\ \E dt \in Waits :
       unit' = [unit EXCEPT
                  !.now = @ + dt,
                  !.ranFor = IF unit.tc.running THEN @ + dt ELSE @,
                  !.pausedFor = IF unit.tc.running THEN @ ELSE @ + dt]
  /\ obs' = [op |-> "wait"]
  /\ Spend

\* The browser runs one of the loop callbacks it holds.
Frame ==
  /\ unit.pending > 0
  /\ \E r \in {Loop(unit.tc, unit.now)} :
       /\ unit' = [unit EXCEPT
                     !.tc = r.tc,
                     !.pending = IF r.requested THEN @ ELSE @ - 1,
                     !.fresh = IF unit.tc.running THEN FALSE ELSE @,
                     !.credited = @ + r.delta * SimulationSpeed]
       /\ obs' = [op |-> "frame", ran |-> unit.tc.running,
                  first |-> unit.fresh, before |-> unit.tc,
                  delta |-> r.delta, calls |-> r.calls]
  /\ Spend

NextClock ==
  \/ OnTick
  \/ OnRender
  \/ Start
  \/ Pause
  \/ Wait
  \/ Frame

SpecClock == InitClock /\ [][NextClock]_vars

\* C17 -- Scheduler ordering: in every frame processed while running, each
\* drained tick invokes every registered tick callback exactly once and
\* runs to completion before the next tick starts, all ticks of the frame
\* complete before any render callback, and every registered render
\* callback is invoked exactly once after the tick-draining loop.
C17_SchedulerOrdering ==
  obs.op = "frame" /\ obs.ran =>
    LET T == obs.before.tickCallbacks
        R == obs.before.renderCallbacks
        n == (obs.before.accumulator + obs.delta) \div TimeStep
        c == obs.calls
    IN /\ Len(c) = n * Len(T) + Len(R)
       /\ \A k \in 1..n : \A i \in 1..Len(T) :
            c[(k - 1) * Len(T) + i] = [kind |-> "tick", cb |-> T[i], tick |-> k]
       /\ \A j \in 1..Len(R) :
            c[n * Len(T) + j] = [kind |-> "render", cb |-> R[j], tick |-> 0]
       /\ unit.tc.accumulator
            = obs.before.accumulator + obs.delta - n * TimeStep
       /\ unit.tc.accumulator < TimeStep

\* A frame that drains two ticks for two tick callbacks and then renders.
C17_Witness ==
  /\ obs.op = "frame"
  /\ obs.ran
  /\ Len(obs.before.tickCallbacks) = 2
  /\ Len(obs.before.renderCallbacks) >= 1
  /\ Len(obs.calls) = 2 * 2 + Len(obs.before.renderCallbacks)

\* C18 -- Paused time produces no ticks: after pause() no frame
\* notification invokes a tick callback until start() is called, and the
\* first frame after start() measures its delta from the moment of
\* start(), so wall-clock time that elapsed while paused is never added to
\* the accumulator.
C18_PausedTimeNoTicks ==
  /\ obs.op = "frame" /\ ~obs.ran =>
       /\ obs.calls = << >>
       /\ unit.tc.accumulator = obs.before.accumulator
  /\ obs.op = "frame" /\ obs.ran /\ obs.first =>
       obs.delta = unit.now - unit.startedAt
  /\ unit.credited <= unit.ranFor

\* The first frame after a pause that lasted and a start: its delta is the
\* time since the start only.
C18_Witness ==
  /\ obs.op = "frame"
  /\ obs.ran
  /\ obs.first
  /\ unit.pausedFor > 0
  /\ unit.credited > 0
  /\ obs.delta > 0
  /\ obs.delta = unit.now - unit.startedAt

\* C19 -- Generation end: at the end of a tick a generation transition
\* happens if and only if the roster is empty or the tick counter has
\* reached 1000; the transition increments the generation counter by
\* exactly 1 and resets the tick counter to 0, so after every completed
\* tick the tick counter is within 0..999.
C19_GenerationEnd ==
  [][obs'.op = "tick" =>
       LET reached == sim.tickCount + 1 >= 1000
           empty == IF sim'.generation = sim.generation
                    THEN sim'.agents = << >>
                    ELSE obs'.roster = << >>
           ended == sim'.generation # sim.generation
       IN /\ ended <=> (empty \/ reached)
          /\ ended => /\ sim'.generation = sim.generation + 1
                      /\ sim'.tickCount = 0
          /\ ~ended => sim'.tickCount = sim.tickCount + 1
          /\ sim'.tickCount \in 0..999]_vars

\* A tick that reached the horizon with agents alive and started the next
\* generation.
C19_Witness ==
  /\ obs.op = "tick"
  /\ obs.transition = "bred"
  /\ obs.roster # << >>
  /\ sim.tickCount = 0
  /\ sim.generation >= 2

\* A tick that emptied the roster before the horizon.
C19_WitnessExtinction ==
  /\ obs.op = "tick"
  /\ obs.transition = "reseeded"
  /\ sim.tickCount = 0

\* C20 -- After every tick, each live agent's fitness equals its age plus
\* its energy.
C20_FitnessIsAgePlusEnergy ==
  obs.op = "tick" =>
    \A i \in 1..Len(sim.agents) :
      ~sim.agents[i].dead =>
        sim.agents[i].fitness
          = sim.agents[i].age * EnergyScale + sim.agents[i].energy

\* What the code keeps: an agent that received a full update in a tick that
\* did not end the generation has fitness = age + energy.
C20_FitnessAfterFullUpdate ==
  obs.op = "tick" /\ obs.transition = "none" =>
    \A k \in 1..Len(obs.log) :
      obs.log[k].full /\ ~obs.log[k].after.dead =>
        obs.log[k].after.fitness
          = obs.log[k].after.age * EnergyScale + obs.log[k].after.energy

\* A tick that ended the generation: a child in the roster has fitness 0
\* and half the maximum energy.
C20_Witness ==
  /\ obs.op = "tick"
  /\ obs.transition = "bred"
  /\ \E i \in 1..Len(sim.agents) :
       /\ ~sim.agents[i].dead
       /\ sim.agents[i].age = 0
       /\ sim.agents[i].fitness = 0
       /\ sim.agents[i].energy = AgentMaxEnergy \div 2


(***************************************************************************)
(* Lineage stamps of births                                                *)
(***************************************************************************)
\* The agents the last operation created: those of the roster that were not
\* in the roster the generation transition started from (after a reset,
\* every agent).
Newcomers ==
  {i \in 1..Len(Roster) : Roster[i].obj \notin Objs(obs.roster)}

Created ==
  \/ obs.op = "reset"
  \/ obs.op = "tick" /\ obs.transition # "none"

\* C21 -- A lineage record's birthTick and generation equal the simulation's
\* tick counter and generation counter at the moment the birth is
\* registered: for the births of a reset, of an extinction reseeding and of
\* the offspring of a generation transition.  (No tick passes between the
\* registration and the end of the operation, so the counters are those of
\* the state the operation leaves.)
C21_BirthStamps ==
  Created =>
    \A i \in Newcomers :
      /\ HasRecord(Ledger, Roster[i].id)
      /\ Ledger.records[Roster[i].id].birthTick = sim.tickCount
      /\ Ledger.records[Roster[i].id].generation = sim.generation

\* An offspring of a generation transition whose record carries the tick
\* of the generation that ended.
C21_Witness ==
  /\ obs.op = "tick" /\ obs.transition = "bred"
  /\ sim.tickCount = 0
  /\ \E i \in Newcomers :
       /\ HasRecord(Ledger, Roster[i].id)
       /\ Ledger.records[Roster[i].id].birthTick = GenerationTicks
       /\ Ledger.records[Roster[i].id].generation = sim.generation

\* The births of a reset carry the counters of the reset simulation.
C21_WitnessReset ==
  /\ obs.op = "reset"
  /\ Newcomers # {}
  /\ \A i \in Newcomers :
       /\ Ledger.records[Roster[i].id].birthTick = sim.tickCount
       /\ Ledger.records[Roster[i].id].generation = sim.generation


(***************************************************************************)
(* The update policy: rosters on both sides of the full-update limit, early *)
(* in a generation and in its last tick                                    *)
(***************************************************************************)
PolicyTicks == 2

\* The number of full updates the agent at roster position i has had after
\* t ticks of a generation in which the roster stayed n long.
FullUpdates(n, i, t) == Cardinality({k \in 1..t : i \in Window(n, k)})

\* Energies of a large roster late in a generation: what the agents ate
\* differs, the later ones ate more.
BatchEnergies(n) == [i \in 1..n |-> (30 + 3 * i) * EnergyScale]

\* S after t ticks of its generation under the batch policy, nobody having
\* died: the age of an agent is the number of its full updates, its fitness
\* that of its last full update, since when its energy has not changed.
BatchMidRun(S, t, energies) ==
  LET n == Len(S.agents)
      ags == [i \in 1..n |->
                [S.agents[i] EXCEPT
                   !.energy = energies[i], !.age = FullUpdates(n, i, t),
                   !.fitness = FullUpdates(n, i, t) * EnergyScale
                               + energies[i]]]
      fit(id) == LET i == CHOOSE j \in 1..n : ags[j].id = id
                 IN ags[i].fitness
      lt == S.lineageTracker
      sm == S.speciesManager
  IN [S EXCEPT
        !.tickCount = t,
        !.agents = ags,
        !.lineageTracker =
           [lt EXCEPT !.currentTick = t,
                      !.records = [id \in DOMAIN lt.records |->
                         [lt.records[id] EXCEPT !.maxFitness = fit(id)]]],
        !.speciesManager =
           [sm EXCEPT !.species = [k \in 1..Len(sm.species) |->
              LET mine == {i \in 1..n : ags[i].sref = k}
              IN IF mine = {} THEN sm.species[k]
                 ELSE [sm.species[k] EXCEPT !.bestFitness =
                         MaxOf({ags[i].fitness : i \in mine})]]]]

PolicySims ==
  BatchSims
    \cup {BatchMidRun(S, LateTick, BatchEnergies(Len(S.agents))) :
            S \in BatchSims}
    \cup UNION {Boots(cfg) : cfg \in Configs}

\* In a run at most one agent meets food, a zone or an obstacle.
InitPolicy ==
  InitWith(PolicySims, {NoSnapshot},
           {[ticks |-> PolicyTicks, events |-> 1, ops |-> 0]})

NextPolicy == Tick

SpecPolicy == InitPolicy /\ [][NextPolicy]_vars

\* The window of the tick that leads from sim to sim', from 0 as the code
\* counts: [start, min(start + 10, N)) with start = (tickCount * 10) mod N.
InPolicyWindow(i) ==
  LET n == Len(sim.agents)
      start == ((sim.tickCount + 1) * 10) % n
  IN n <= 20 \/ (i - 1 >= start /\ i - 1 < Min(start + 10, n))

\* The agent the tick started with at roster position i is as it was
\* wherever it still is in the roster.
Untouched(i) ==
  \A j \in 1..Len(sim'.agents) :
    sim'.agents[j].obj = sim.agents[i].obj =>
      /\ sim'.agents[j].age = sim.agents[i].age
      /\ sim'.agents[j].energy = sim.agents[i].energy
      /\ sim'.agents[j].fitness = sim.agents[i].fitness
      /\ sim'.agents[j].dead = sim.agents[i].dead
      /\ sim'.agents[j].mm = sim.agents[i].mm

\* C22 (as stated) -- Update policy: in a tick with more than 20 live
\* agents only the agents at roster indices in [start, min(start + 10, N))
\* with start = (tickCount x 10) mod N receive a full update; every other
\* agent has its age, energy, fitness, dead flag and metabolismMultiplier
\* unchanged by the tick and consumes no food.  With 20 or fewer agents
\* every agent receives a full update.
C22_UpdatePolicy_AsStated ==
  [][obs'.op = "tick" =>
       \A i \in 1..Len(sim.agents) :
         /\ obs'.log[i].full = InPolicyWindow(i)
         /\ ~InPolicyWindow(i) => obs'.log[i].ate = 0 /\ Untouched(i)]_vars

\* C22 -- The same, for what the tick does before it ends a generation: in
\* a tick that does not end the generation an agent outside the window is
\* unchanged by the tick; in every tick exactly the agents of the window
\* receive the full update and no other agent consumes food.
C22_UpdatePolicy ==
  [][obs'.op = "tick" =>
       \A i \in 1..Len(sim.agents) :
         /\ obs'.log[i].full = InPolicyWindow(i)
         /\ ~InPolicyWindow(i) =>
              /\ obs'.log[i].ate = 0
              /\ obs'.log[i].after = sim.agents[i]
              /\ obs'.transition = "none" => Untouched(i)]_vars

\* A tick of a roster above the limit that did not end the generation: an
\* agent of the window ate and changed, an agent outside it is in the roster
\* as it was logged before the tick.
C22_Witness ==
  /\ obs.op = "tick" /\ obs.transition = "none"
  /\ Len(obs.log) > 20
  /\ \E k \in 1..Len(obs.log) :
       /\ obs.log[k].full /\ obs.log[k].ate > 0
       /\ obs.log[k].after.energy # obs.log[k].before.energy
  /\ \E k \in 1..Len(obs.log), j \in 1..Len(Roster) :
       /\ ~obs.log[k].full
       /\ Roster[j].obj = obs.log[k].obj
       /\ Roster[j] = obs.log[k].before

\* The last tick of a generation of a roster above the limit: a survivor
\* outside the window became a parent and has half the energy it had.
C22_WitnessTransition ==
  /\ obs.op = "tick" /\ obs.transition = "bred"
  /\ Len(obs.log) > 20
  /\ \E k \in 1..Len(obs.log), j \in 1..Len(Roster) :
       /\ ~obs.log[k].full
       /\ Roster[j].obj = obs.log[k].obj
       /\ Roster[j].energy = Half(obs.log[k].before.energy)
       /\ Roster[j].energy < obs.log[k].before.energy

\* A tick of a roster of at most 20 agents: every agent had the full update.
C22_WitnessSmall ==
  /\ obs.op = "tick"
  /\ Len(obs.log) > 0 /\ Len(obs.log) <= 20
  /\ \A k \in 1..Len(obs.log) : obs.log[k].full


(***************************************************************************)
(* Deaths                                                                  *)
(***************************************************************************)
\* The log entries of the agents the tick marked dead.
MarkedDead(log) ==
  {k \in 1..Len(log) : log[k].after.dead /\ ~log[k].before.dead}

\* C23 -- After every tick completes no agent in the roster has its dead
\* flag set, and every agent marked dead during the tick has been removed
\* from the roster with its lineage record's deathTick set to that tick's
\* tick-counter value and maxFitness at least its final fitness.
C23_DeadRemovedAndRecorded ==
  [][obs'.op = "tick" =>
       /\ \A j \in 1..Len(sim'.agents) : ~sim'.agents[j].dead
       /\ \A k \in MarkedDead(obs'.log) :
            LET a == obs'.log[k].after
                lt == sim'.lineageTracker
            IN /\ a.obj \notin Objs(sim'.agents)
               /\ HasRecord(lt, a.id)
               /\ lt.records[a.id].deathTick = sim.tickCount + 1
               /\ lt.records[a.id].maxFitness >= a.fitness]_vars

\* A tick marked an agent dead; it is out of the roster and its record
\* carries a death tick.
C23_Witness ==
  /\ obs.op = "tick"
  /\ \E k \in MarkedDead(obs.log) :
       /\ obs.log[k].obj \notin Objs(Roster)
       /\ HasRecord(Ledger, obs.log[k].after.id)
       /\ Ledger.records[obs.log[k].after.id].deathTick # NoTick


(***************************************************************************)
(* The frame-loop chain                                                    *)
(***************************************************************************)
\* C24 -- At most one frame-loop callback is pending at any time, for every
\* interleaving of start(), pause() and frame notifications (including
\* pause() followed by start() before the already-scheduled frame fires),
\* so that one loop chain drives the tick and render callbacks.
C24_SingleLoopChain == unit.pending <= 1

\* pause() then start() before the scheduled frame fired: a frame of one
\* chain has just run its callbacks and asked for the next, a callback of
\* another chain is still held by the browser, and the controller runs.
C24_Witness ==
  /\ obs.op = "frame" /\ obs.ran
  /\ unit.tc.running
  /\ unit.pending = 2


\* C25 -- Every agent that has left the live roster, whether it died during
\* a tick or was pruned as a non-survivor at a generation boundary, has a
\* non-null deathTick in its lineage record.
C25_DepartedHaveDeathTick ==
  [][obs'.op = "tick" =>
       \A i \in 1..Len(sim.agents) :
         sim.agents[i].obj \notin Objs(sim'.agents) =>
           /\ HasRecord(sim'.lineageTracker, sim.agents[i].id)
           /\ sim'.lineageTracker.records[sim.agents[i].id].deathTick
                # NoTick]_vars

\* A generation transition pruned an agent that was alive at the end of the
\* tick: it is disposed and out of the roster, and its record, which no
\* birth has replaced, has no death tick.
C25_Witness ==
  /\ obs.op = "tick" /\ obs.transition = "bred"
  /\ \E k \in 1..Len(obs.roster) :
       /\ obs.roster[k].obj \notin Objs(Roster)
       /\ obs.roster[k].obj \in sim.disposed
       /\ HasRecord(Ledger, obs.roster[k].id)
       /\ Ledger.records[obs.roster[k].id].parentIds = obs.roster[k].parentIds
       /\ Ledger.records[obs.roster[k].id].birthTick = 0
       /\ Ledger.records[obs.roster[k].id].deathTick = NoTick


(***************************************************************************)
(* Species membership                                                      *)
(***************************************************************************)
\* C26 -- After every tick and every generation transition, each live agent
\* that has a species has its id in that species' member list (in
\* particular the survivors carried over into the next generation).
C26_LiveAgentsAreMembers ==
  obs.op = "tick" =>
    \A i \in 1..Len(Roster) :
      Roster[i].sref > 0 =>
        Roster[i].id \in
          SeqRange(sim.speciesManager.species[Roster[i].sref].members)

\* A generation transition carried a survivor over: it is in the roster
\* with the species it had, and that species' member list, emptied by
\* advanceGeneration and refilled by the offspring, does not hold its id.
C26_Witness ==
  /\ obs.op = "tick" /\ obs.transition = "bred"
  /\ \E i \in 1..Len(Roster) :
       /\ Roster[i].obj \in Objs(obs.roster)
       /\ Roster[i].sref > 0
       /\ sim.speciesManager.species[Roster[i].sref].members # << >>
       /\ Roster[i].id \notin
            SeqRange(sim.speciesManager.species[Roster[i].sref].members)


(***************************************************************************)
(* Parentage                                                               *)
(***************************************************************************)
\* The parent ids the ledger holds for the offspring of a birth.
Registered(b) ==
  IF HasRecord(Ledger, b.id) THEN Ledger.records[b.id].parentIds ELSE << >>

\* C27 -- Whenever an offspring is registered in the lineage ledger with two
\* parent ids, its genome was produced by crossover of those two parents'
\* genomes and both parents' energy was halved; an offspring produced by
\* plain genome copy is registered with exactly one parent id.
C27_ParentageMatchesReproduction ==
  obs.op = "tick" =>
    \A k \in 1..Len(obs.births) :
      LET b == obs.births[k]
      IN /\ Len(Registered(b)) = 2 =>
              /\ b.crossed
              /\ b.base.weights =
                   Crossover(b.genomes[1], b.genomes[2],
                             CrossoverTypeFor(sim.generation), b.draw).weights
              /\ \A p \in 1..2 : b.after[p] = Half(b.before[p])
         /\ ~b.crossed => Len(Registered(b)) = 1

\* An offspring whose partner could not reproduce: its genome is a copy of
\* the first parent's (mutated), the partner kept its energy, and the
\* ledger names both as parents.
C27_Witness ==
  /\ obs.op = "tick" /\ obs.transition = "bred"
  /\ \E k \in 1..Len(obs.births) :
       LET b == obs.births[k]
       IN /\ Len(Registered(b)) = 2
          /\ ~b.crossed
          /\ b.before[2] <= AgentReproductionEnergy
          /\ b.after[2] = b.before[2]
          /\ b.base = b.genomes[1]
          /\ b.genomes[2] # b.genomes[1]

\* An offspring of two parents that could reproduce: crossover, both
\* energies halved, two parent ids.
C27_WitnessSexual ==
  /\ obs.op = "tick" /\ obs.transition = "bred"
  /\ \E k \in 1..Len(obs.births) :
       LET b == obs.births[k]
       IN /\ Len(Registered(b)) = 2
          /\ b.crossed
          /\ \A p \in 1..2 : b.after[p] = Half(b.before[p])


(***************************************************************************)
(* Energy of the living                                                    *)
(***************************************************************************)
\* C28 -- After every tick, every agent in the roster that is not marked
\* dead has energy strictly greater than 0 and at most the configured
\* maximum energy.
C28_LivingEnergyInRange ==
  obs.op = "tick" =>
    \A i \in 1..Len(Roster) :
      ~Roster[i].dead =>
        Roster[i].energy > 0 /\ Roster[i].energy <= AgentMaxEnergy

\* An agent survived the metabolism of its full update, hit an obstacle,
\* and is in the roster after the tick, not marked dead, with no energy
\* left.
C28_Witness ==
  /\ obs.op = "tick" /\ obs.transition = "none"
  /\ \E k \in 1..Len(obs.log), i \in 1..Len(Roster) :
       /\ obs.log[k].full /\ obs.log[k].hits > 0
       /\ Metabolism(obs.log[k].before).energy > 0
       /\ Roster[i].obj = obs.log[k].obj
       /\ ~Roster[i].dead
       /\ Roster[i].energy <= 0
       /\ Roster[i].energy = obs.log[k].after.energy


(***************************************************************************)
(* The species a lineage record names                                      *)
(***************************************************************************)
\* C29 -- For every agent created by reset or by a generation transition,
\* the speciesId stored in its lineage record equals the id of the species
\* the agent is assigned to.
C29_RecordNamesSpecies ==
  Created =>
    \A i \in Newcomers :
      /\ HasRecord(Ledger, Roster[i].id)
      /\ Roster[i].sref > 0
      /\ Ledger.records[Roster[i].id].speciesId
           = sim.speciesManager.species[Roster[i].sref].id

\* An agent made by reset or by a transition; assignSpecies gave it a
\* species of the manager, whose id is not the one in its record.
C29_Witness ==
  /\ Created
  /\ \E i \in Newcomers :
       /\ HasRecord(Ledger, Roster[i].id)
       /\ Roster[i].sref > 0
       /\ sim.speciesManager.species[Roster[i].sref].id = Roster[i].sid
       /\ Roster[i].id \in
            SeqRange(sim.speciesManager.species[Roster[i].sref].members)
       /\ Roster[i].sid >= 1
       /\ Ledger.records[Roster[i].id].speciesId = 0


(***************************************************************************)
(* The lineage tracker on its own: the calls the simulation makes on it,   *)
(* over several generations                                                *)
(***************************************************************************)
LineageSteps == 4
LineageAgents == 5

\* The tracker after the births of a list of offspring, each of a parent
\* and a partner (0: none): registerBirth(partner ? [parent.id, partner.id]
\* : [parent.id], 0).
RECURSIVE RegisterOffspring(_, _)
RegisterOffspring(lt, couples) ==
  IF couples = << >> THEN lt
  ELSE LET c == Head(couples)
       IN RegisterOffspring(
            RegisterBirth(lt, IF c[2] = 0 THEN <<c[1]>> ELSE <<c[1], c[2]>>,
                          0),
            Tail(couples))

\* The tracker after the births of count agents without parents.
RECURSIVE RegisterFounders(_, _)
RegisterFounders(lt, count) ==
  IF count = 0 THEN lt
  ELSE RegisterFounders(RegisterBirth(lt, << >>, 0), count - 1)

\* The parents the offspring loop can draw among the survivors: the partner
\* is another survivor or nobody.
Couples(survivors) ==
  {c \in survivors \X (survivors \cup {0}) : c[1] # c[2]}

\* Which agents are the best ceil(n / 4) of a roster depends on what they
\* ate: the oldest, the youngest, or the oldest with the youngest.
SurvivorChoices(live) ==
  LET s == SortedSeq(live)
      n == Len(s)
      k == CeilDiv(n, 4)
  IN {{s[i] : i \in 1..k}, {s[i] : i \in (n - k + 1)..n},
      {s[1]} \cup {s[i] : i \in (n - k + 2)..n}}

\* unit: lt (the tracker) and live (the ids of the agents in the roster).
\* The state after reset().
InitLineage ==
  /\ unit = [lt |-> RegisterFounders(NewLineageTracker, LineageAgents),
             live |-> 1..LineageAgents]
  /\ budget = WorldBudget(LineageSteps)
  /\ obs = [op |-> "init"]
  /\ sim = NoUnit
  /\ stored = NoSnapshot
  /\ file = NoSnapshot
  /\ fair = << >>

\* A tick in which the agents of dying die: updateTick, then registerDeath
\* for each.  Nobody dies, or the oldest agent, or everybody.
LineageTick ==
  /\ unit.live # {}
  /\ \E dying \in {{}, {SortedSeq(unit.live)[1]}, unit.live} :
       LET lt1 == UpdateTick(unit.lt, unit.lt.currentTick + 1)
           dead == [k \in 1..Cardinality(dying) |->
                      [id |-> SortedSeq(dying)[k], fitness |-> 0]]
       IN unit' = [lt |-> RegisterDeaths(dead, lt1),
                   live |-> unit.live \ dying]
  /\ obs' = [op |-> "tick"]
  /\ Spend

\* The end of a generation with agents alive: advanceGeneration, the best
\* of the roster survive, the offspring loop fills the roster with their
\* children (here all of the same couple).
LineageTransition ==
  /\ unit.live # {}
  /\ \E survivors \in SurvivorChoices(unit.live) :
     \E c \in Couples(survivors) :
     \E couples \in {[k \in 1..(LineageAgents - Cardinality(survivors))
                        |-> c]} :
       LET lt1 == LineageAdvanceGeneration(unit.lt)
           lt2 == RegisterOffspring(lt1, couples)
       IN unit' = [lt |-> lt2,
                   live |-> survivors
                            \cup (lt1.nextAgentId..(lt2.nextAgentId - 1))]
  /\ obs' = [op |-> "transition"]
  /\ Spend

\* The end of a generation after the last agent died: new agents without
\* parents.
LineageReseed ==
  /\ unit.live = {}
  /\ LET lt1 == LineageAdvanceGeneration(unit.lt)
         lt2 == RegisterFounders(lt1, LineageAgents)
     IN unit' = [lt |-> lt2,
                 live |-> lt1.nextAgentId..(lt2.nextAgentId - 1)]
  /\ obs' = [op |-> "reseed"]
  /\ Spend

NextLineage ==
  \/ LineageTick
  \/ LineageTransition
  \/ LineageReseed

SpecLineage == InitLineage /\ [][NextLineage]_vars

\* The ids of the records a finished walk returned, in order.
AncestorIds(lt, id) ==
  LET walk == GetAncestors(lt, id, MaxWalk)
  IN [k \in 1..Len(walk.ancestors) |-> walk.ancestors[k].id]

\* C30 -- getAncestors(id) returns each ancestor record at most once, also
\* when two ancestry paths share an ancestor (for example when one recorded
\* parent is itself an ancestor of the other parent).
C30_AncestorsOnce ==
  \A id \in DOMAIN unit.lt.records :
    GetAncestors(unit.lt, id, MaxWalk).done =>
      \A j, k \in 1..Len(AncestorIds(unit.lt, id)) :
        AncestorIds(unit.lt, id)[j] = AncestorIds(unit.lt, id)[k] => j = k

\* An agent whose second parent is also a parent of its first parent: the
\* walk ends and returns the record of the second parent twice.
C30_Witness ==
  \E id \in DOMAIN unit.lt.records :
    LET rec == unit.lt.records[id]
        ids == AncestorIds(unit.lt, id)
    IN /\ GetAncestors(unit.lt, id, MaxWalk).done
       /\ Len(rec.parentIds) = 2
       /\ rec.parentIds[2] \in
            SeqRange(unit.lt.records[rec.parentIds[1]].parentIds)
       /\ Cardinality({k \in 1..Len(ids) : ids[k] = rec.parentIds[2]}) = 2

====
